---- MODULE Spec2Model ----
(***************************************************************************)
(* A model of wakeru's ingest path (IndexManager::add_documents), of the   *)
(* readers that observe it (the IndexManager's reader and the reader of a  *)
(* SearchEngine), and of DictionaryManager::load.                          *)
(*                                                                         *)
(* The on-disk Tantivy index is the sequence `committed` of documents in   *)
(* commit order.  A reader or a searcher is a generation: the length of    *)
(* the prefix of `committed` it was loaded from.  An IndexWriter is the    *)
(* directory's writer lock plus the documents staged in it; a commit       *)
(* appends all staged documents at once, a writer dropped before its       *)
(* commit leaves nothing behind.  Every fallible library call of           *)
(* add_documents (the `?` operators) may fail.                             *)
(***************************************************************************)
EXTENDS Integers, Sequences, FiniteSets, TLC

\* ------------------------------------------------------------------ bounds
MaxBatch == 2
MaxCalls == 2
MaxFaults == 1

\* Document ids and document contents (text, source_id and metadata as one
\* opaque value) the callers draw from.
Ids == {"x", "y"}
Texts == {"first", "second"}
Threads == {1, 2}
NoThread == 0

Document == [id : Ids, text : Texts]

SeqsUpTo(S, n) == UNION {[1..k -> S] : k \in 0..n}
Batches == SeqsUpTo(Document, MaxBatch)


VARIABLES
  committed,   \* the index on disk: documents in commit order, each tagged with its call
  writerLock,  \* the thread holding the directory's writer lock, or NoThread
  readerGen,   \* IndexManager.reader: how many committed documents it has loaded
  pc,          \* each thread's position in add_documents
  cur,         \* each thread's call id (its index in log)
  snap,        \* each thread's `searcher`: the generation it was taken at
  log,         \* one record per add_documents call: its input and its outcome
  faults,      \* library failures so far
  engine,      \* the SearchEngine's reader, and the calls that had returned when it was built
  held,        \* a searcher some caller took from the IndexManager's reader and holds
  lastSearch   \* the generation the SearchEngine's latest search ran against

idxVars == <<committed, writerLock, readerGen, pc, cur, snap, log, faults,
             engine, held, lastSearch>>

\* DictionaryManager instances and the threads that call load() on them.
Managers == {"a", "b"}
MaxLoads == 4

VARIABLES
  dictionary,  \* each manager's OnceLock: Unset, or the memoized Result
  initBy,      \* the thread running the OnceLock's initializer, or NoThread
  dpc,         \* each thread's position in load()
  dmgr,        \* the manager each thread is calling load() on
  source,      \* whether the manager's dictionary can be downloaded or read now
  inner,       \* how many times load_inner has run, per manager
  returned,    \* the results load() has returned, per manager, in order
  loads        \* load() calls so far

dictVars == <<dictionary, initBy, dpc, dmgr, source, inner, returned, loads>>

\* ------------------------------------------------- index directories on disk
\* Language (config.rs) and the directories {base}/{code} the indexes live in.
Languages == {"Ja", "En"}
code(language) == IF language = "Ja" THEN "ja" ELSE "en"
text_tokenizer_name(language) == IF language = "Ja" THEN "lang_ja" ELSE "lang_en"
index_path_for_language(language) == code(language)
Paths == {index_path_for_language(l) : l \in Languages}

\* tokenizer_ja: Option<TextAnalyzer>
Analyzers == {"None", "Some"}

MaxOpens == 3
MaxAdds == 1

VARIABLES
  disk,        \* per directory: whether meta.json exists, the schema's tokenizer name of `text`, the committed documents
  managers,    \* the IndexManagers returned so far: directory, language, schema, reader generation
  opens,       \* one record per open_or_create call
  adds         \* one record per add_documents call made through a returned manager

storeVars == <<disk, managers, opens, adds>>

\* WakeruService: queries are sequences of words, of which "no" stands for a
\* word the language's analyzer drops (a particle, punctuation) and "(" for
\* an unbalanced parenthesis, which the query parser rejects and the
\* analyzers drop.
QueryWords == {"first", "second", "no", "("}
MaxQueryLen == 2
MaxLimit == 2
MaxInits == 1
MaxIngests == 2
Queries == SeqsUpTo(QueryWords, MaxQueryLen)
Limits == 0..MaxLimit

VARIABLES
  svc,         \* the WakeruService: langs (per language: directory, manager's reader, engine's reader), or not initialized
  inits,       \* WakeruService::init calls so far
  ingested,    \* the language of each index_documents call that reached an index
  lastOp       \* the latest service operation: its arguments, its result, the directories it read and wrote

svcVars == <<svc, inits, ingested, lastOp>>

\* The tokenizer adapter's content-word filter, its token stream, and the
\* conversion of a document's metadata to and from the index.
VARIABLES
  feature,     \* the feature string should_index is called with, as its characters
  indexed,     \* whether should_index was called, and what it returned
  input_text,  \* the text token_stream is called with, as its characters
  worker,      \* the segmenter's tokens for input_text: character range and feature
  emitted,     \* whether token_stream ran, and the (surface, start, end) it collected
  metadata,    \* the metadata of a document that is ingested
  restored     \* whether the document was found, and the metadata of its SearchResult

fnVars == <<feature, indexed, input_text, worker, emitted, metadata, restored>>

\* The Document builder, and the validation of a configuration.
VARIABLES
  document,    \* the Document under construction: its metadata, the builder calls so far, the latest call
  config,      \* the WakeruConfig validate() is called on
  validation,  \* whether validate() was called, what it returned, whether it created the cache directory
  en,          \* an English index, a query, and the outcomes of searching the query and its uppercase
  http,        \* a POST /wakeru request, how far it got, and the response
  tokenized,   \* a token stream and a field, and the TokenizationResult made of them
  planned,     \* an engine's language and query tokens, and the query search_tokens_or builds of them
  writers,     \* whether the service was initialised with config, and the memory budget of each index writer opened
  advancing    \* the token streams made so far, and the latest: its remaining tokens, its Token, the Tokens advance() yielded

unitVars == <<document, config, validation, en, http, tokenized, planned, writers, advancing>>

extVars == <<storeVars, svcVars, fnVars, unitVars>>

notStoreVars == <<idxVars, dictVars, svcVars, fnVars, unitVars>>
notFnVars == <<idxVars, dictVars, storeVars, svcVars, unitVars>>
notUnitVars == <<idxVars, dictVars, storeVars, svcVars, fnVars>>

vars == <<idxVars, dictVars, extVars>>

\* ------------------------------------------------------- AddDocumentsReport
\* AddDocumentsReport::default()
DefaultReport == [total |-> 0, added |-> 0, skipped_duplicates |-> 0]

record_total(r) == [r EXCEPT !.total = @ + 1]
record_added(r) == [r EXCEPT !.added = @ + 1]
record_skipped(r) == [r EXCEPT !.skipped_duplicates = @ + 1]

\* ------------------------------------------------------------ the index
Prefix(s, n) == SubSeq(s, 1, n)

\* What a searcher of generation g reads.
Visible(g) == Prefix(committed, g)

IdsOf(docs) == {docs[j].id : j \in DOMAIN docs}

\* searcher.doc_freq(term) for the term of field `id` with text `id`.
doc_freq(view, id) == Cardinality({j \in DOMAIN view : view[j].id = id})

\* to_tantivy_document: the stored fields of the document (the call tag is
\* history only: which add_documents call staged it).
to_tantivy_document(doc, c) == [id |-> doc.id, text |-> doc.text, call |-> c]

\* `in_batch || in_index`
IsDuplicateNoBatchCheck(in_batch, in_index) == in_index
IsDuplicateNoIndexCheck(in_batch, in_index) == in_batch
IsDuplicate(in_batch, in_index) == in_batch \/ in_index

\* The body of the `for doc in documents` loop, for documents[k..], given the
\* searcher's view; acc is <<seen_ids, report, documents added to the writer>>.
RECURSIVE ProcessFrom(_, _, _, _, _)
ProcessFrom(documents, k, view, c, acc) ==
  IF k > Len(documents) THEN acc
  ELSE LET doc == documents[k]
           report == record_total(acc.report)
           in_batch == doc.id \in acc.seen_ids
           seen_ids == acc.seen_ids \cup {doc.id}
           in_index == doc_freq(view, doc.id) > 0
       IN IF IsDuplicate(in_batch, in_index)
          THEN ProcessFrom(documents, k + 1, view, c,
                 [seen_ids |-> seen_ids,
                  report |-> record_skipped(report),
                  staged |-> acc.staged])
          ELSE ProcessFrom(documents, k + 1, view, c,
                 [seen_ids |-> seen_ids,
                  report |-> record_added(report),
                  staged |-> Append(acc.staged, to_tantivy_document(doc, c))])

ProcessBatch(documents, view, c) ==
  ProcessFrom(documents, 1, view, c,
              [seen_ids |-> {}, report |-> DefaultReport, staged |-> <<>>])

\* writer.commit(): the staged documents become part of the index together.
CommitPartial(index, staged) == index \o Prefix(staged, IF staged = <<>> THEN 0 ELSE 1)
CommitResult(index, staged) == index \o staged

\* self.reader.reload(): the reader loads the index as committed now.
ReloadSkipped(index, gen) == gen
ReloadResult(index, gen) == Len(index)

\* index.writer(..): the directory's writer lock is free.
WriterLockIgnored(lock) == TRUE
WriterLockFree(lock) == lock = NoThread

\* ----------------------------------------------------------------- Init
NoSearcher == [gen |-> -1, docs |-> <<>>]
NoSearch == -1

\* index.reader_builder()...try_into(): a new reader loads the committed index.
EngineReaderStale(index) == 0
EngineReaderInit(index) == Len(index)

\* open_or_create on a new directory, or on one that holds an index already
\* (call 0 stands for whatever committed its documents); index.reader()
\* loads what is committed.
InitialIndexes == {<<>>, <<[id |-> "x", text |-> "first", call |-> 0]>>}

InitIndex ==
  /\ committed \in InitialIndexes
  /\ writerLock = NoThread
  /\ readerGen = Len(committed)
  /\ pc = [t \in Threads |-> "idle"]
  /\ cur = [t \in Threads |-> 0]
  /\ snap = [t \in Threads |-> 0]
  /\ log = <<>>
  /\ faults = 0
  /\ engine = [gen |-> EngineReaderInit(committed), after |-> {}]
  /\ held = NoSearcher
  /\ lastSearch = NoSearch

\* OnceLock::new() in with_preset / from_local_path.
Unset == [ok |-> FALSE, val |-> <<"unset", 0>>]

InitDict ==
  /\ dictionary = [m \in Managers |-> Unset]
  /\ initBy = [m \in Managers |-> NoThread]
  /\ dpc = [t \in Threads |-> "idle"]
  /\ dmgr = [t \in Threads |-> "a"]
  /\ source \in [Managers -> BOOLEAN]
  /\ inner = [m \in Managers |-> 0]
  /\ returned = [m \in Managers |-> <<>>]
  /\ loads = 0

\* A directory that holds no index: no meta.json.
NoIndex == [meta |-> FALSE, tokenizer |-> "none", docs |-> <<>>]

InitStore ==
  /\ disk = [p \in Paths |-> NoIndex]
  /\ managers = <<>>
  /\ opens = <<>>
  /\ adds = <<>>

\* No WakeruService yet, no operation yet.
NoService == [ok |-> FALSE, default_language |-> "none", langs |-> <<>>,
              dictionary_manager |-> "None", configured |-> {}]

NoOp == [op |-> "none", language |-> "none", query |-> <<>>, limit |-> 0,
         documents |-> <<>>, res |-> "none", terms |-> <<>>, results |-> <<>>,
         queried |-> FALSE, read |-> {}, wrote |-> {}, supported |-> {}]

InitService ==
  /\ svc = NoService
  /\ inits = 0
  /\ ingested = <<>>
  /\ lastOp = NoOp

\* should_index has not been called.
FilterIdle ==
  /\ feature = <<>>
  /\ indexed = [called |-> FALSE, result |-> FALSE]

\* token_stream has not been called.
TokenizerIdle ==
  /\ input_text = <<>>
  /\ worker = <<>>
  /\ emitted = [called |-> FALSE, tokens |-> <<>>]

\* No document with metadata has been ingested.
MetadataIdle ==
  /\ metadata = <<>>
  /\ restored = [found |-> FALSE, metadata |-> <<>>]

\* No Document is under construction.
NoDocument == [built |-> FALSE, metadata |-> <<>>, calls |-> 0, op |-> "none"]
BuilderIdle == document = NoDocument

\* No configuration is being validated.
NoConfig ==
  [languages |-> <<>>, default_language |-> "none", default_limit |-> 0,
   max_limit |-> 0, writer_memory_bytes |-> 0, batch_commit_size |-> 0,
   cache_dir |-> "None"]
NotValidated == [called |-> FALSE, result |-> "none", created |-> FALSE]
ValidateIdle == config = NoConfig /\ validation = NotValidated

\* No English index is searched.
NoOutcome == [res |-> "none", tokens |-> <<>>, results |-> <<>>]
NoEnglish ==
  [docs |-> <<>>, query |-> <<>>, limit |-> 0, called |-> FALSE,
   as_typed |-> NoOutcome, uppercased |-> NoOutcome]
EnglishIdle == en = NoEnglish

\* No request is in flight.
NoRequest ==
  [text_len |-> 0, escaped |-> 0, content_type |-> "none", stage |-> "none",
   status |-> 0, code |-> "none", analyzed |-> FALSE]
HttpIdle == http = NoRequest

\* No token stream is consumed.
NoTokenization ==
  [stream |-> <<>>, field |-> "none", called |-> FALSE,
   terms |-> <<>>, query_tokens |-> <<>>]
TokenizationIdle == tokenized = NoTokenization

\* No query is being built.
NoQuery == [kind |-> "none", subqueries |-> <<>>]
NoPlan ==
  [language |-> "none", query_tokens |-> <<>>, called |-> FALSE,
   morph_terms |-> <<>>, ngram_terms |-> <<>>, query |-> NoQuery]
PlanIdle == planned = NoPlan

\* No service was initialised, no index writer opened.
NoWriters == [init |-> "none", budgets |-> <<>>]
WritersIdle == writers = NoWriters

\* No token stream was made.
NoStream ==
  [streams |-> 0, kept |-> <<>>, tokens |-> <<>>,
   token |-> [text |-> <<>>, offset_from |-> 0, offset_to |-> 0,
              position |-> 0, position_length |-> 0],
   yielded |-> <<>>, exhausted |-> FALSE]
PositionsIdle == advancing = NoStream

UnitIdle ==
  /\ BuilderIdle /\ ValidateIdle /\ EnglishIdle /\ HttpIdle
  /\ TokenizationIdle /\ PlanIdle /\ WritersIdle /\ PositionsIdle

InitExt == InitStore /\ InitService /\ FilterIdle /\ TokenizerIdle /\ MetadataIdle /\ UnitIdle

Init == InitIndex /\ InitDict /\ InitExt

Active(t) == pc[t] # "idle"
Returned == {c \in DOMAIN log : log[c].res # "run"}
ReturnedOk == {c \in DOMAIN log : log[c].res = "Ok"}

\* ------------------------------------------------- IndexManager::add_documents
NewCall(t, documents) ==
  [t |-> t, batch |-> documents, pre |-> Len(committed), res |-> "run",
   errAt |-> "none", staged |-> <<>>, report |-> DefaultReport,
   overlaps |-> {cur[u] : u \in {v \in Threads \ {t} : Active(v)}},
   retGen |-> -1, post |-> -1]

\* Lines 249-251: the call starts with an empty report and an empty seen_ids.
\* A call that starts while another one runs overlaps it.
Call(t, documents) ==
  /\ pc[t] = "idle"
  /\ Len(log) < MaxCalls
  /\ log' = Append([c \in DOMAIN log |->
                      IF log[c].res = "run"
                      THEN [log[c] EXCEPT !.overlaps = @ \cup {Len(log) + 1}]
                      ELSE log[c]],
                   NewCall(t, documents))
  /\ cur' = [cur EXCEPT ![t] = Len(log) + 1]
  /\ pc' = [pc EXCEPT ![t] = "start"]
  /\ UNCHANGED <<dictVars, extVars>>
  /\ UNCHANGED <<committed, writerLock, readerGen, snap, faults, engine, held,
                 lastSearch>>

\* A `?` that returns Err: the writer (if created) is dropped with whatever it
\* holds uncommitted, and the report is lost with the call.
ReturnErr(t, at) ==
  /\ log' = [log EXCEPT ![cur[t]] =
               [@ EXCEPT !.res = "Err", !.errAt = at, !.retGen = readerGen,
                         !.post = Len(committed)]]
  /\ writerLock' = IF writerLock = t THEN NoThread ELSE writerLock
  /\ pc' = [pc EXCEPT ![t] = "idle"]

Fault == faults < MaxFaults

\* Line 254: self.index.writer(50_000_000)?
CreateWriter(t) ==
  /\ pc[t] = "start"
  /\ WriterLockFree(writerLock)
  /\ writerLock' = t
  /\ pc' = [pc EXCEPT ![t] = "searcher"]
  /\ UNCHANGED <<dictVars, extVars>>
  /\ UNCHANGED <<committed, readerGen, cur, snap, log, faults, engine, held,
                 lastSearch>>

\* Line 254 while another writer of the index lives: Tantivy's LockFailure.
CreateWriterLocked(t) ==
  /\ pc[t] = "start"
  /\ ~WriterLockFree(writerLock)
  /\ ReturnErr(t, "lock")
  /\ UNCHANGED <<dictVars, extVars>>
  /\ UNCHANGED <<committed, readerGen, cur, snap, faults, engine, held,
                 lastSearch>>

CreateWriterFail(t) ==
  /\ pc[t] = "start"
  /\ WriterLockFree(writerLock)
  /\ Fault
  /\ faults' = faults + 1
  /\ ReturnErr(t, "writer")
  /\ UNCHANGED <<dictVars, extVars>>
  /\ UNCHANGED <<committed, readerGen, cur, snap, engine, held, lastSearch>>

\* Line 257: let searcher = self.reader.searcher();
TakeSearcher(t) ==
  /\ pc[t] = "searcher"
  /\ snap' = [snap EXCEPT ![t] = readerGen]
  /\ pc' = [pc EXCEPT ![t] = "loop"]
  /\ UNCHANGED <<dictVars, extVars>>
  /\ UNCHANGED <<committed, writerLock, readerGen, cur, log, faults, engine,
                 held, lastSearch>>

\* Lines 259-280: the loop over the batch, against the searcher taken above.
Loop(t) ==
  /\ pc[t] = "loop"
  /\ LET r == ProcessBatch(log[cur[t]].batch, Visible(snap[t]), cur[t])
     IN log' = [log EXCEPT ![cur[t]] =
                  [@ EXCEPT !.staged = r.staged, !.report = r.report]]
  /\ pc' = [pc EXCEPT ![t] = "commit"]
  /\ UNCHANGED <<dictVars, extVars>>
  /\ UNCHANGED <<committed, writerLock, readerGen, cur, snap, faults, engine,
                 held, lastSearch>>

\* Line 268 (doc_freq(..)?) or line 278 (add_document(..)?) fails in the loop.
LoopFail(t) ==
  /\ pc[t] = "loop"
  /\ Fault
  /\ faults' = faults + 1
  /\ LET r == ProcessBatch(log[cur[t]].batch, Visible(snap[t]), cur[t])
     IN \E at \in {"lookup", "add"} :
          /\ at = "lookup" => Len(log[cur[t]].batch) > 0
          /\ at = "add" => Len(r.staged) > 0
          /\ ReturnErr(t, at)
  /\ UNCHANGED <<dictVars, extVars>>
  /\ UNCHANGED <<committed, readerGen, cur, snap, engine, held, lastSearch>>

\* Line 283: writer.commit()?
Commit(t) ==
  /\ pc[t] = "commit"
  /\ committed' = CommitResult(committed, log[cur[t]].staged)
  /\ pc' = [pc EXCEPT ![t] = "reload"]
  /\ UNCHANGED <<dictVars, extVars>>
  /\ UNCHANGED <<writerLock, readerGen, cur, snap, log, faults, engine, held,
                 lastSearch>>

CommitFail(t) ==
  /\ pc[t] = "commit"
  /\ Fault
  /\ faults' = faults + 1
  /\ ReturnErr(t, "commit")
  /\ UNCHANGED <<dictVars, extVars>>
  /\ UNCHANGED <<committed, readerGen, cur, snap, engine, held, lastSearch>>

\* Lines 286-289: self.reader.reload()?; Ok(report); the writer is dropped.
Reload(t) ==
  /\ pc[t] = "reload"
  /\ readerGen' = ReloadResult(committed, readerGen)
  /\ log' = [log EXCEPT ![cur[t]] =
               [@ EXCEPT !.res = "Ok", !.retGen = readerGen',
                         !.post = Len(committed)]]
  /\ writerLock' = NoThread
  /\ pc' = [pc EXCEPT ![t] = "idle"]
  /\ UNCHANGED <<dictVars, extVars>>
  /\ UNCHANGED <<committed, cur, snap, faults, engine, held, lastSearch>>

ReloadFail(t) ==
  /\ pc[t] = "reload"
  /\ Fault
  /\ faults' = faults + 1
  /\ ReturnErr(t, "reload")
  /\ UNCHANGED <<dictVars, extVars>>
  /\ UNCHANGED <<committed, readerGen, cur, snap, engine, held, lastSearch>>

\* ------------------------------------------------------------- the readers
\* The IndexManager's reader is built by index.reader() (line 183), whose
\* reload policy is Tantivy's default, OnCommitWithDelay: some time after a
\* commit a watcher thread reloads it.
WatchReload ==
  /\ readerGen < Len(committed)
  /\ readerGen' = Len(committed)
  /\ UNCHANGED <<dictVars, extVars>>
  /\ UNCHANGED <<committed, writerLock, pc, cur, snap, log, faults, engine,
                 held, lastSearch>>

\* SearchEngine::new: a reader of its own, ReloadPolicy::OnCommitWithDelay.
EngineNew ==
  /\ engine.after # ReturnedOk
  /\ engine' = [gen |-> EngineReaderInit(committed), after |-> ReturnedOk]
  /\ lastSearch' = NoSearch
  /\ UNCHANGED <<dictVars, extVars>>
  /\ UNCHANGED <<committed, writerLock, readerGen, pc, cur, snap, log, faults,
                 held>>

\* The watcher of the SearchEngine's reader: nothing in add_documents reloads
\* this reader.
EngineWatchReload ==
  /\ engine.gen < Len(committed)
  /\ engine' = [engine EXCEPT !.gen = Len(committed)]
  /\ UNCHANGED <<dictVars, extVars>>
  /\ UNCHANGED <<committed, writerLock, readerGen, pc, cur, snap, log, faults,
                 held, lastSearch>>

\* SearchEngine::search / search_tokens_or: self.reader.searcher() is what the
\* query runs against.
EngineSearch ==
  /\ lastSearch' = engine.gen
  /\ lastSearch' # lastSearch
  /\ UNCHANGED <<dictVars, extVars>>
  /\ UNCHANGED <<committed, writerLock, readerGen, pc, cur, snap, log, faults,
                 engine, held>>

\* index_manager.reader().searcher(), kept by its caller.
HoldSearcher ==
  /\ held' = [gen |-> readerGen, docs |-> Visible(readerGen)]
  /\ held' # held
  /\ UNCHANGED <<dictVars, extVars>>
  /\ UNCHANGED <<committed, writerLock, readerGen, pc, cur, snap, log, faults,
                 engine, lastSearch>>

\* Concurrent ingestion: both threads call add_documents on the one
\* IndexManager; the manager's reader is also reloaded by its watcher.
Next ==
  \/ \E t \in Threads, documents \in Batches : Call(t, documents)
  \/ \E t \in Threads : CreateWriter(t)
  \/ \E t \in Threads : CreateWriterLocked(t)
  \/ \E t \in Threads : CreateWriterFail(t)
  \/ \E t \in Threads : TakeSearcher(t)
  \/ \E t \in Threads : Loop(t)
  \/ \E t \in Threads : LoopFail(t)
  \/ \E t \in Threads : Commit(t)
  \/ \E t \in Threads : CommitFail(t)
  \/ \E t \in Threads : Reload(t)
  \/ \E t \in Threads : ReloadFail(t)
  \/ WatchReload

Spec == Init /\ [][Next]_vars

\* One ingesting thread, observed: a caller that holds a searcher of the
\* manager's reader, and a SearchEngine that is built, reloaded and searched.
Ingester == 1

NextReaders ==
  \/ \E documents \in Batches : Call(Ingester, documents)
  \/ CreateWriter(Ingester)
  \/ CreateWriterFail(Ingester)
  \/ TakeSearcher(Ingester)
  \/ Loop(Ingester)
  \/ LoopFail(Ingester)
  \/ Commit(Ingester)
  \/ CommitFail(Ingester)
  \/ Reload(Ingester)
  \/ ReloadFail(Ingester)
  \/ WatchReload
  \/ EngineNew
  \/ EngineWatchReload
  \/ EngineSearch
  \/ HoldSearcher

SpecReaders == Init /\ [][NextReaders]_vars

\* ---------------------------------------------------- DictionaryManager::load
\* load_inner(): the dictionary is loaded (a new Dictionary, wrapped by
\* Arc::new) or the load fails (an error holding its own Arc of the cause);
\* either is told apart from any other execution's by the execution's number.
load_inner(m) == [ok |-> source[m], val |-> <<m, inner[m] + 1>>]

\* OnceLock::get_or_init: the cell holds a value (a memoized Err is a value).
IsInitializedOkOnly(m) == dictionary[m] # Unset /\ dictionary[m].ok
IsInitialized(m) == dictionary[m] # Unset

\* Once::call_once: another thread runs the initializer now.
InitializerNeverRunning(m) == FALSE
InitializerRunning(m) == initBy[m] # NoThread

\* load() on an initialized cell: get_or_init returns the value, load its clone.
LoadCached(t, m) ==
  /\ dpc[t] = "idle"
  /\ loads < MaxLoads
  /\ IsInitialized(m)
  /\ loads' = loads + 1
  /\ returned' = [returned EXCEPT ![m] = Append(@, dictionary[m])]
  /\ UNCHANGED <<dictionary, initBy, dpc, dmgr, source, inner>>
  /\ UNCHANGED <<idxVars, extVars>>

\* load() on an empty cell that nobody initializes: this thread's closure runs.
LoadInit(t, m) ==
  /\ dpc[t] = "idle"
  /\ loads < MaxLoads
  /\ ~IsInitialized(m)
  /\ ~InitializerRunning(m)
  /\ loads' = loads + 1
  /\ initBy' = [initBy EXCEPT ![m] = t]
  /\ dpc' = [dpc EXCEPT ![t] = "init"]
  /\ dmgr' = [dmgr EXCEPT ![t] = m]
  /\ UNCHANGED <<dictionary, source, inner, returned>>
  /\ UNCHANGED <<idxVars, extVars>>

\* load() on an empty cell while another thread initializes it: blocks.
LoadWait(t, m) ==
  /\ dpc[t] = "idle"
  /\ loads < MaxLoads
  /\ ~IsInitialized(m)
  /\ InitializerRunning(m)
  /\ loads' = loads + 1
  /\ dpc' = [dpc EXCEPT ![t] = "wait"]
  /\ dmgr' = [dmgr EXCEPT ![t] = m]
  /\ UNCHANGED <<dictionary, initBy, source, inner, returned>>
  /\ UNCHANGED <<idxVars, extVars>>

\* The closure `|| self.load_inner().map(Arc::new)` completes: its result is
\* stored in the cell and returned.
LoadInner(t) ==
  /\ dpc[t] = "init"
  /\ LET m == dmgr[t]
         outcome == load_inner(m)
     IN /\ inner' = [inner EXCEPT ![m] = @ + 1]
        /\ dictionary' = [dictionary EXCEPT ![m] = outcome]
        /\ initBy' = [initBy EXCEPT ![m] = NoThread]
        /\ returned' = [returned EXCEPT ![m] = Append(@, outcome)]
  /\ dpc' = [dpc EXCEPT ![t] = "idle"]
  /\ UNCHANGED <<dmgr, source, loads>>
  /\ UNCHANGED <<idxVars, extVars>>

\* A blocked load() resumes once the cell is initialized.
LoadWake(t) ==
  /\ dpc[t] = "wait"
  /\ dictionary[dmgr[t]] # Unset
  /\ returned' = [returned EXCEPT ![dmgr[t]] = Append(@, dictionary[dmgr[t]])]
  /\ dpc' = [dpc EXCEPT ![t] = "idle"]
  /\ UNCHANGED <<dictionary, initBy, dmgr, source, inner, loads>>
  /\ UNCHANGED <<idxVars, extVars>>

\* The network or the dictionary file comes or goes.
SourceChange(m) ==
  /\ source' = [source EXCEPT ![m] = ~@]
  /\ UNCHANGED <<dictionary, initBy, dpc, dmgr, inner, returned, loads>>
  /\ UNCHANGED <<idxVars, extVars>>

NextDict ==
  \/ \E t \in Threads, m \in Managers : LoadCached(t, m)
  \/ \E t \in Threads, m \in Managers : LoadInit(t, m)
  \/ \E t \in Threads, m \in Managers : LoadWait(t, m)
  \/ \E t \in Threads : LoadInner(t)
  \/ \E t \in Threads : LoadWake(t)
  \/ \E m \in Managers : SourceChange(m)

SpecDict == Init /\ [][NextDict]_vars

\* ------------------------------------------------ IndexManager::open_or_create
\* index_path.join(META_JSON).exists()
MetaJsonMissing(d) == FALSE
MetaJsonExists(d) == d.meta

\* build_schema(language): the schema, reduced to the tokenizer name that its
\* `text` field records.
build_schema(language) == text_tokenizer_name(language)

\* Index::create_in_dir(index_path, schema): meta.json is written, no documents.
create_in_dir(schema) == [meta |-> TRUE, tokenizer |-> schema, docs |-> <<>>]

\* assert_schema_matches_language: Ok (TRUE) or LanguageSchemaMismatch (FALSE).
SchemaAlwaysMatches(schema, language) == TRUE
assert_schema_matches_language(schema, language) ==
  schema = text_tokenizer_name(language)

\* `match language`: Ja needs tokenizer_ja (ok_or(MissingJapaneseTokenizer)),
\* En builds its own analyzer and never looks at tokenizer_ja.
TokenizerNeverMissing(language, tokenizer_ja) == TRUE
TokenizerRegistered(language, tokenizer_ja) ==
  IF language = "Ja" THEN tokenizer_ja # "None" ELSE TRUE

\* open_or_create on a directory in state d: the result, the directory
\* afterwards, and whether an index was created.
open_or_create(d, language, tokenizer_ja) ==
  LET meta_json_exists == MetaJsonExists(d)
      index == IF meta_json_exists THEN d ELSE create_in_dir(build_schema(language))
  IN IF meta_json_exists /\ ~assert_schema_matches_language(d.tokenizer, language)
     THEN [res |-> "LanguageSchemaMismatch", index |-> d, created |-> FALSE]
     ELSE IF ~TokenizerRegistered(language, tokenizer_ja)
     THEN [res |-> "MissingJapaneseTokenizer", index |-> index,
           created |-> ~meta_json_exists]
     ELSE [res |-> "Ok", index |-> index, created |-> ~meta_json_exists]

\* The position of an event among the open_or_create and add_documents calls.
Clock == Len(opens) + Len(adds)

OpenOrCreate(p, language, tokenizer_ja) ==
  /\ Len(opens) < MaxOpens
  /\ LET r == open_or_create(disk[p], language, tokenizer_ja)
         ok == r.res = "Ok"
     IN /\ disk' = [disk EXCEPT ![p] = r.index]
        /\ managers' = IF ok
                       THEN Append(managers,
                              [path |-> p, language |-> language,
                               schema |-> r.index.tokenizer,
                               gen |-> EngineReaderInit(r.index.docs)])
                       ELSE managers
        /\ opens' = Append(opens,
                      [path |-> p, language |-> language,
                       tokenizer_ja |-> tokenizer_ja, res |-> r.res,
                       existed |-> disk[p].meta, created |-> r.created,
                       before |-> disk[p], after |-> r.index,
                       manager |-> IF ok THEN Len(managers) + 1 ELSE 0,
                       view |-> IF ok THEN r.index.docs ELSE <<>>,
                       at |-> Clock + 1])
  /\ UNCHANGED adds
  /\ UNCHANGED notStoreVars

\* add_documents through a returned manager, start to Ok(report).
ManagerAddDocuments(m, documents) ==
  /\ Len(adds) < MaxAdds
  /\ LET mg == managers[m]
         index == disk[mg.path].docs
         r == ProcessBatch(documents, Prefix(index, mg.gen), Len(adds) + 1)
         after == CommitResult(index, r.staged)
     IN /\ disk' = [disk EXCEPT ![mg.path].docs = after]
        /\ managers' = [managers EXCEPT ![m].gen = ReloadResult(after, mg.gen)]
        /\ adds' = Append(adds,
                     [manager |-> m, path |-> mg.path, batch |-> documents,
                      staged |-> r.staged, report |-> r.report,
                      at |-> Clock + 1])
  /\ UNCHANGED opens
  /\ UNCHANGED notStoreVars

\* The watcher of a manager's reader (index.reader(): OnCommitWithDelay)
\* loads what another manager committed to the directory.
ManagerWatchReload(m) ==
  /\ managers[m].gen # Len(disk[managers[m].path].docs)
  /\ managers' = [managers EXCEPT ![m].gen = Len(disk[managers[m].path].docs)]
  /\ UNCHANGED <<disk, opens, adds>>
  /\ UNCHANGED notStoreVars

NextOpen ==
  \/ \E p \in Paths, language \in Languages, tokenizer_ja \in Analyzers :
       OpenOrCreate(p, language, tokenizer_ja)
  \/ \E m \in DOMAIN managers, documents \in Batches :
       ManagerAddDocuments(m, documents)
  \/ \E m \in DOMAIN managers : ManagerWatchReload(m)

\* Nothing is ingested through the one IndexManager of Spec, no dictionary
\* is loaded.
InitQuiet ==
  /\ InitIndex
  /\ committed = <<>>
  /\ InitDict
  /\ source = [m \in Managers |-> TRUE]

InitOpen ==
  /\ InitQuiet /\ InitStore /\ InitService
  /\ FilterIdle /\ TokenizerIdle /\ MetadataIdle /\ UnitIdle

SpecOpen == InitOpen /\ [][NextOpen]_vars


\* ------------------------------------------------------------- SearchEngine
\* The language's analyzer on a query: the words it keeps, in order.
Analyze(query_str) == SelectSeq(query_str, LAMBDA w : w \in Texts)

\* tokenize_from_stream: each token once, in first-occurrence order.
RECURSIVE tokenize_from_stream(_, _, _)
tokenize_from_stream(tokens, k, terms) ==
  IF k > Len(tokens) THEN terms
  ELSE IF tokens[k] \in {terms[j] : j \in DOMAIN terms}
       THEN tokenize_from_stream(tokens, k + 1, terms)
       ELSE tokenize_from_stream(tokens, k + 1, Append(terms, tokens[k]))

tokenize_query(query_str) == tokenize_from_stream(Analyze(query_str), 1, <<>>)

\* query_parser.parse_query(query_str): Err for a malformed query.
parse_query(query_str) ==
  IF "(" \in {query_str[j] : j \in DOMAIN query_str}
  THEN [ok |-> FALSE, terms |-> <<>>]
  ELSE [ok |-> TRUE, terms |-> tokenize_query(query_str)]

\* TopDocs::with_limit(limit) asserts limit >= 1: FALSE is its panic.
with_limit(limit) == limit >= 1

\* searcher.search(&query, &TopDocs::with_limit(limit)) and
\* convert_to_search_results: the stored documents of at most `limit`
\* documents whose text holds one of the terms.
top_docs(view, terms, limit) ==
  LET hits == SelectSeq(view, LAMBDA d : d.text \in {terms[j] : j \in DOMAIN terms})
  IN Prefix(hits, IF Len(hits) < limit THEN Len(hits) ELSE limit)

SearchOutcome(res, terms, results, queried) ==
  [res |-> res, terms |-> terms, results |-> results, queried |-> queried]

\* SearchEngine::search on the searcher's view.
search(view, query_str, limit) ==
  LET query == parse_query(query_str)
  IN IF ~query.ok THEN SearchOutcome("InvalidQuery", <<>>, <<>>, FALSE)
     ELSE IF ~with_limit(limit) THEN SearchOutcome("Panic", query.terms, <<>>, FALSE)
     ELSE SearchOutcome("Ok", query.terms, top_docs(view, query.terms, limit), TRUE)

\* `if morph_terms.is_empty()`
TermsNeverEmpty(morph_terms) == FALSE
TermsEmpty(morph_terms) == morph_terms = <<>>

\* SearchEngine::search_tokens_or on the searcher's view.
search_tokens_or(view, query_str, limit) ==
  LET morph_terms == tokenize_query(query_str)
  IN IF TermsEmpty(morph_terms) THEN SearchOutcome("Ok", morph_terms, <<>>, FALSE)
     ELSE IF ~with_limit(limit) THEN SearchOutcome("Panic", morph_terms, <<>>, FALSE)
     ELSE SearchOutcome("Ok", morph_terms, top_docs(view, morph_terms, limit), TRUE)


\* ------------------------------------------------------------ WakeruService
\* WakeruConfig, reduced to index.languages and index.default_language.
LanguageLists == SeqsUpTo(Languages, 2)

\* config.validate(): languages is not empty, default_language is in it.
validate(languages, default_language) ==
  /\ languages # <<>>
  /\ default_language \in {languages[j] : j \in DOMAIN languages}

NoPerLanguage == [path |-> "none", gen |-> -1, engine |-> -1]

\* self.langs.get(&language)
get_other(langs, language) ==
  IF language \in DOMAIN langs
  THEN langs[CHOOSE l \in DOMAIN langs : DOMAIN langs = {language} \/ l # language]
  ELSE NoPerLanguage
get_or_any(langs, language) ==
  IF language \in DOMAIN langs THEN langs[language]
  ELSE langs[CHOOSE l \in DOMAIN langs : TRUE]
get(langs, language) ==
  IF language \in DOMAIN langs THEN langs[language] ELSE NoPerLanguage

\* The `for &lang in config.supported_languages()` loop of init, from
\* languages[k] on: the disk afterwards, the langs map, and the first error.
RECURSIVE InitLangs(_, _, _, _, _)
InitLangs(languages, k, d, langs, ja_analyzer) ==
  IF k > Len(languages) THEN [res |-> "Ok", disk |-> d, langs |-> langs]
  ELSE LET lang == languages[k]
           index_path == index_path_for_language(lang)
           lang_analyzer == IF lang = "Ja" THEN ja_analyzer ELSE "None"
           r == open_or_create(d[index_path], lang, lang_analyzer)
           d1 == [d EXCEPT ![index_path] = r.index]
           per == [path |-> index_path,
                   gen |-> EngineReaderInit(r.index.docs),
                   engine |-> EngineReaderInit(r.index.docs)]
       IN IF r.res # "Ok" THEN [res |-> r.res, disk |-> d1, langs |-> langs]
          ELSE InitLangs(languages, k + 1, d1,
                 [l \in DOMAIN langs \cup {lang} |->
                    IF l = lang THEN per ELSE langs[l]],
                 ja_analyzer)

Wrote(d1, d2) == {p \in Paths : d1[p] # d2[p]}

Op(op, language, query, limit, documents, r, read, wrote) ==
  [op |-> op, language |-> language, query |-> query, limit |-> limit,
   documents |-> documents, res |-> r.res, terms |-> r.terms,
   results |-> r.results, queried |-> r.queried, read |-> read,
   wrote |-> wrote, supported |-> svc.configured]

\* WakeruService::init: the service replaces the one held before.
ServiceInit(languages, default_language) ==
  /\ inits < MaxInits
  /\ inits' = inits + 1
  /\ lastOp' = NoOp
  /\ UNCHANGED ingested
  /\ IF ~validate(languages, default_language)
     THEN UNCHANGED <<svc, disk>>
     ELSE LET ja == "Ja" \in {languages[j] : j \in DOMAIN languages}
              dict == load_inner("a")
          IN IF ja /\ ~dict.ok
             THEN UNCHANGED <<svc, disk>>
             ELSE LET r == InitLangs(languages, 1, disk, <<>>,
                                     IF ja THEN "Some" ELSE "None")
                  IN /\ disk' = r.disk
                     /\ svc' = IF r.res = "Ok"
                               THEN [ok |-> TRUE,
                                     default_language |-> default_language,
                                     langs |-> r.langs,
                                     dictionary_manager |->
                                       IF ja THEN "Some" ELSE "None",
                                     configured |->
                                       {languages[j] : j \in DOMAIN languages}]
                               ELSE svc
  /\ UNCHANGED <<managers, opens, adds>>
  /\ UNCHANGED <<idxVars, dictVars, fnVars, unitVars>>

\* WakeruService::index_documents_with_language
IndexDocuments(language, documents) ==
  /\ svc.ok
  /\ LET per_lang == get(svc.langs, language)
     IN IF per_lang = NoPerLanguage
        THEN /\ UNCHANGED <<svc, ingested, disk>>
             /\ lastOp' = Op("index", language, <<>>, 0, documents,
                             SearchOutcome("UnsupportedLanguage", <<>>, <<>>, FALSE),
                             {}, Wrote(disk, disk'))
        ELSE /\ Len(ingested) < MaxIngests
             /\ LET index == disk[per_lang.path].docs
                    r == ProcessBatch(documents, Prefix(index, per_lang.gen),
                                      Len(ingested) + 1)
                    after == CommitResult(index, r.staged)
                IN /\ disk' = [disk EXCEPT ![per_lang.path].docs = after]
                   /\ svc' = [svc EXCEPT !.langs =
                                [l \in DOMAIN svc.langs |->
                                   IF svc.langs[l].path = per_lang.path
                                   THEN [svc.langs[l] EXCEPT
                                           !.gen = ReloadResult(after, @)]
                                   ELSE svc.langs[l]]]
                   /\ ingested' = Append(ingested, language)
                   /\ lastOp' = Op("index", language, <<>>, 0, documents,
                                   SearchOutcome("Ok", <<>>, r.staged, FALSE),
                                   {per_lang.path}, Wrote(disk, disk'))
  /\ UNCHANGED inits
  /\ UNCHANGED <<managers, opens, adds>>
  /\ UNCHANGED <<idxVars, dictVars, fnVars, unitVars>>

\* WakeruService::search_with_language
Search(language, query, limit) ==
  /\ svc.ok
  /\ UNCHANGED storeVars
  /\ LET per_lang == get(svc.langs, language)
     IN lastOp' =
          IF per_lang = NoPerLanguage
          THEN Op("search", language, query, limit, <<>>,
                  SearchOutcome("UnsupportedLanguage", <<>>, <<>>, FALSE),
                  {}, Wrote(disk, disk'))
          ELSE Op("search", language, query, limit, <<>>,
                  search(Prefix(disk[per_lang.path].docs, per_lang.engine),
                         query, limit),
                  {per_lang.path}, Wrote(disk, disk'))
  /\ lastOp' # lastOp
  /\ UNCHANGED <<svc, inits, ingested>>
  /\ UNCHANGED <<idxVars, dictVars, fnVars, unitVars>>

\* WakeruService::search_tokens_or_with_language
SearchTokensOr(language, query, limit) ==
  /\ svc.ok
  /\ UNCHANGED storeVars
  /\ LET per_lang == get(svc.langs, language)
     IN lastOp' =
          IF per_lang = NoPerLanguage
          THEN Op("search_tokens_or", language, query, limit, <<>>,
                  SearchOutcome("UnsupportedLanguage", <<>>, <<>>, FALSE),
                  {}, Wrote(disk, disk'))
          ELSE Op("search_tokens_or", language, query, limit, <<>>,
                  search_tokens_or(Prefix(disk[per_lang.path].docs, per_lang.engine),
                                   query, limit),
                  {per_lang.path}, Wrote(disk, disk'))
  /\ lastOp' # lastOp
  /\ UNCHANGED <<svc, inits, ingested>>
  /\ UNCHANGED <<idxVars, dictVars, fnVars, unitVars>>

\* The watcher of a SearchEngine's reader (ReloadPolicy::OnCommitWithDelay).
ServiceEngineWatchReload(language) ==
  /\ svc.ok
  /\ language \in DOMAIN svc.langs
  /\ svc.langs[language].engine # Len(disk[svc.langs[language].path].docs)
  /\ svc' = [svc EXCEPT !.langs[language].engine =
               Len(disk[svc.langs[language].path].docs)]
  /\ UNCHANGED <<inits, ingested, lastOp>>
  /\ UNCHANGED storeVars
  /\ UNCHANGED <<idxVars, dictVars, fnVars, unitVars>>

\* What the callers of the service ingest and ask.
ServiceBatches == SeqsUpTo(Document, 1)
ServiceQueries == {<<>>, <<"first">>}

NextService ==
  \/ \E languages \in LanguageLists, default_language \in Languages :
       ServiceInit(languages, default_language)
  \/ \E language \in Languages, documents \in ServiceBatches :
       IndexDocuments(language, documents)
  \/ \E language \in Languages, query \in ServiceQueries, limit \in Limits :
       Search(language, query, limit)
  \/ \E language \in Languages, query \in ServiceQueries, limit \in Limits :
       SearchTokensOr(language, query, limit)
  \/ \E language \in Languages : ServiceEngineWatchReload(language)

\* The directories are empty, or {base}/en holds an index that was created
\* for Japanese.
InitialDisks ==
  {[p \in Paths |-> NoIndex],
   [p \in Paths |-> IF p = "en" THEN create_in_dir(build_schema("Ja")) ELSE NoIndex]}

InitServices ==
  /\ InitIndex /\ committed = <<>>
  /\ InitDict /\ source["b"]
  /\ InitService
  /\ FilterIdle /\ TokenizerIdle /\ MetadataIdle /\ UnitIdle
  /\ disk \in InitialDisks /\ managers = <<>> /\ opens = <<>> /\ adds = <<>>

SpecService == InitServices /\ [][NextService]_vars


\* A service that was initialized for both languages on directories whose
\* English index holds documents committed earlier, and the searches on it.
StockedIndexes ==
  {docs \in SeqsUpTo([id : Ids, text : Texts, call : {0}], 2) :
     \A i, j \in DOMAIN docs : docs[i].id = docs[j].id => i = j}

StockedDisk(docs) ==
  [p \in Paths |->
     IF p = "en" THEN [create_in_dir(build_schema("En")) EXCEPT !.docs = docs]
     ELSE create_in_dir(build_schema("Ja"))]

InitSearch ==
  /\ \E docs \in StockedIndexes :
       /\ disk = StockedDisk(docs)
       /\ svc = [ok |-> TRUE, default_language |-> "En",
                 langs |-> InitLangs(<<"Ja", "En">>, 1, disk, <<>>, "Some").langs,
                 dictionary_manager |-> "Some",
                 configured |-> {"Ja", "En"}]
  /\ inits = 1
  /\ ingested = <<>>
  /\ lastOp = NoOp
  /\ managers = <<>> /\ opens = <<>> /\ adds = <<>>

NextSearch ==
  \/ \E language \in Languages, query \in Queries, limit \in Limits :
       Search(language, query, limit)
  \/ \E language \in Languages, query \in Queries, limit \in Limits :
       SearchTokensOr(language, query, limit)

InitSearching ==
  /\ InitQuiet /\ InitSearch
  /\ FilterIdle /\ TokenizerIdle /\ MetadataIdle /\ UnitIdle

SpecSearch == InitSearching /\ [][NextSearch]_vars

\* ------------------------------------------------------------- should_index
\* Feature strings are sequences of characters; each character of the
\* source's literals is written as one ASCII name:
\*   jo-shi (particle), jo-dou-shi (auxiliary verb), ki-gou (symbol),
\*   fu-i-ra-"-" (filler), kan-dou-shi (interjection), setsu-zoku-shi
\*   (conjunction), setsu-tou-shi (prefix), ren-tai-shi (adnominal),
\*   setsu-bi-ji (suffix), mei-shi (noun), dou-shi (verb), kei-you-shi
\*   (adjective), kei-jou-shi (adjectival noun), fuku-shi (adverb),
\*   ho-jo-ki-gou (auxiliary symbol); mei-shi-teki (nominal), dou-shi-teki
\*   (verbal), kei-you-shi-teki (adjectival), dai-mei-shi (pronoun),
\*   hi-jiX-ritsu (non-independent), ichi-pan (general), tei-do (degree),
\*   ko-yuu-mei-shi (proper noun), sa-hen-setsu-zoku (sahen), jiX-ritsu
\*   (independent), ku-ten (period).
Word ==
  [joshi |-> <<"jo", "shi">>,
   jodoushi |-> <<"jo", "dou", "shi">>,
   kigou |-> <<"ki", "gou">>,
   filler |-> <<"fu", "i", "ra", "-">>,
   kandoushi |-> <<"kan", "dou", "shi">>,
   setsuzokushi |-> <<"setsu", "zoku", "shi">>,
   settoushi |-> <<"setsu", "tou", "shi">>,
   rentaishi |-> <<"ren", "tai", "shi">>,
   setsubiji |-> <<"setsu", "bi", "ji">>,
   meishi |-> <<"mei", "shi">>,
   doushi |-> <<"dou", "shi">>,
   keiyoushi |-> <<"kei", "you", "shi">>,
   keijoushi |-> <<"kei", "jou", "shi">>,
   fukushi |-> <<"fuku", "shi">>,
   hojokigou |-> <<"ho", "jo", "ki", "gou">>,
   meishiteki |-> <<"mei", "shi", "teki">>,
   doushiteki |-> <<"dou", "shi", "teki">>,
   keiyoushiteki |-> <<"kei", "you", "shi", "teki">>,
   daimeishi |-> <<"dai", "mei", "shi">>,
   hijiritsu |-> <<"hi", "jiX", "ritsu">>,
   ippan |-> <<"ichi", "pan">>,
   teido |-> <<"tei", "do">>,
   koyuumeishi |-> <<"ko", "yuu", "mei", "shi">>,
   sahensetsuzoku |-> <<"sa", "hen", "setsu", "zoku">>,
   jiritsu |-> <<"jiX", "ritsu">>,
   kuten |-> <<"ku", "ten">>,
   star |-> <<"*">>,
   comma |-> <<",">>,
   jo |-> <<"jo">>,
   mei |-> <<"mei">>]

\* str::starts_with
starts_with(f, prefix) ==
  /\ Len(f) >= Len(prefix)
  /\ SubSeq(f, 1, Len(prefix)) = prefix

\* Two fields of a feature string: "a,b".
Fields(a, b) == a \o Word.comma \o b

\* should_index without the exclusion of pronouns and non-independent nouns.
should_index_all_nouns(f) ==
  IF \/ starts_with(f, Word.joshi) \/ starts_with(f, Word.jodoushi)
     \/ starts_with(f, Word.kigou) \/ starts_with(f, Word.filler)
     \/ starts_with(f, Word.kandoushi) \/ starts_with(f, Word.setsuzokushi)
     \/ starts_with(f, Word.settoushi) \/ starts_with(f, Word.rentaishi)
  THEN FALSE
  ELSE IF starts_with(f, Fields(Word.setsubiji, Word.meishiteki)) THEN TRUE
  ELSE IF starts_with(f, Word.meishi) THEN TRUE
  ELSE IF starts_with(f, Word.doushi) \/ starts_with(f, Word.keiyoushi) THEN TRUE
  ELSE IF starts_with(f, Word.keijoushi) THEN TRUE
  ELSE IF starts_with(f, Word.fukushi)
       THEN starts_with(f, Fields(Word.fukushi, Word.ippan))
  ELSE FALSE

should_index(f) ==
  IF \/ starts_with(f, Word.joshi) \/ starts_with(f, Word.jodoushi)
     \/ starts_with(f, Word.kigou) \/ starts_with(f, Word.filler)
     \/ starts_with(f, Word.kandoushi) \/ starts_with(f, Word.setsuzokushi)
     \/ starts_with(f, Word.settoushi) \/ starts_with(f, Word.rentaishi)
  THEN FALSE
  ELSE IF starts_with(f, Fields(Word.setsubiji, Word.meishiteki)) THEN TRUE
  ELSE IF starts_with(f, Word.meishi)
       THEN IF \/ starts_with(f, Fields(Word.meishi, Word.daimeishi))
               \/ starts_with(f, Fields(Word.meishi, Word.hijiritsu))
            THEN FALSE
            ELSE TRUE
  ELSE IF starts_with(f, Word.doushi) \/ starts_with(f, Word.keiyoushi) THEN TRUE
  ELSE IF starts_with(f, Word.keijoushi) THEN TRUE
  ELSE IF starts_with(f, Word.fukushi)
       THEN starts_with(f, Fields(Word.fukushi, Word.ippan))
  ELSE FALSE

\* The feature strings should_index is called with: up to MaxPieces words
\* and commas written one after the other (with or without commas between
\* the words), and the feature strings of the tests.
MaxPieces == 3
Pieces == {Word[k] : k \in DOMAIN Word}

RECURSIVE Concat(_)
Concat(ps) == IF ps = <<>> THEN <<>> ELSE Head(ps) \o Concat(Tail(ps))

TestFeatures ==
  {Fields(Fields(Word.meishi, Word.ippan), Fields(Word.star, Word.star)),
   Fields(Fields(Word.meishi, Word.koyuumeishi), Word.star),
   Fields(Fields(Word.meishi, Word.sahensetsuzoku), Word.star),
   Fields(Fields(Word.doushi, Word.jiritsu), Word.star),
   Fields(Fields(Word.keiyoushi, Word.jiritsu), Word.star),
   Fields(Fields(Word.keijoushi, Word.ippan), Word.star),
   Fields(Fields(Word.fukushi, Word.ippan), Word.star),
   Fields(Fields(Word.setsubiji, Word.meishiteki), Word.ippan),
   Fields(Fields(Word.joshi, Word.star), Word.star),
   Fields(Fields(Word.jodoushi, Word.star), Word.star),
   Fields(Fields(Word.kigou, Word.kuten), Word.star),
   Fields(Fields(Word.meishi, Word.daimeishi), Word.ippan),
   Fields(Fields(Word.meishi, Word.hijiritsu), Word.ippan),
   Fields(Fields(Word.setsuzokushi, Word.star), Word.star),
   Fields(Fields(Word.filler, Word.star), Word.star),
   Fields(Fields(Word.kandoushi, Word.star), Word.star),
   Fields(Fields(Word.setsubiji, Word.doushiteki), Word.star),
   Fields(Fields(Word.setsubiji, Word.keiyoushiteki), Word.star),
   Fields(Fields(Word.fukushi, Word.teido), Word.star),
   Fields(Fields(Word.hojokigou, Word.kuten), Word.star)}

Features ==
  {Concat(ps) : ps \in SeqsUpTo(Pieces, MaxPieces)} \cup TestFeatures

ShouldIndex ==
  /\ ~indexed.called
  /\ indexed' = [called |-> TRUE, result |-> should_index(feature)]
  /\ UNCHANGED <<feature, input_text, worker, emitted, metadata, restored>>
  /\ UNCHANGED notFnVars

NextFilter == ShouldIndex

InitFilter ==
  /\ InitQuiet /\ InitStore /\ InitService /\ TokenizerIdle /\ MetadataIdle /\ UnitIdle
  /\ feature \in Features
  /\ indexed = [called |-> FALSE, result |-> FALSE]

SpecFilter == InitFilter /\ [][NextFilter]_vars


\* ------------------------------------------- VibratoTokenizer::token_stream
\* Input texts are sequences of characters: "a" is one byte of UTF-8, "k"
\* (a kanji or kana) is three.
TextChars == {"a", "k"}
MaxText == 3
InputTexts == SeqsUpTo(TextChars, MaxText)

Utf8(ch) == IF ch = "a" THEN <<"a">> ELSE <<"k1", "k2", "k3">>

\* The bytes of a str.
Bytes(text) == Concat([j \in DOMAIN text |-> Utf8(text[j])])

\* The features the segmenter gives its tokens: a common noun, a particle.
TokenFeatures == {Fields(Word.meishi, Word.ippan), Fields(Word.joshi, Word.star)}

\* worker.tokenize(): tokens over non-empty character ranges [s, e) of the
\* sentence, in order and without overlap, each with a feature.
WorkerTokens(text) ==
  {t \in [s : 0..Len(text), e : 0..Len(text), feature : TokenFeatures] : t.s < t.e}

Segmentations(text) ==
  {w \in SeqsUpTo(WorkerTokens(text), Len(text)) :
     \A k \in DOMAIN w : k > 1 => w[k - 1].e <= w[k].s}

\* token.surface()
surface(text, t) == SubSeq(text, t.s + 1, t.e)

\* token.range_byte() (and the character range, which the adapter must not use)
range_in_chars(text, t) == [start |-> t.s, end |-> t.e]
range_byte(text, t) ==
  [start |-> Len(Bytes(SubSeq(text, 1, t.s))),
   end |-> Len(Bytes(SubSeq(text, 1, t.e)))]

\* The `for token in worker.token_iter()` loop and the stream's advance():
\* the Token of every indexed worker token, from w[k] on.
RECURSIVE token_stream(_, _, _, _)
token_stream(text, w, k, tokens) ==
  IF k > Len(w) THEN tokens
  ELSE IF should_index(w[k].feature)
       THEN token_stream(text, w, k + 1,
              Append(tokens,
                [text |-> surface(text, w[k]),
                 offset_from |-> range_byte(text, w[k]).start,
                 offset_to |-> range_byte(text, w[k]).end,
                 position |-> Len(tokens)]))
       ELSE token_stream(text, w, k + 1, tokens)

TokenStream ==
  /\ ~emitted.called
  /\ emitted' = [called |-> TRUE,
                 tokens |-> token_stream(input_text, worker, 1, <<>>)]
  /\ UNCHANGED <<feature, indexed, input_text, worker, metadata, restored>>
  /\ UNCHANGED notFnVars

NextTokenizer == TokenStream

InitTokenizer ==
  /\ InitQuiet /\ InitStore /\ InitService /\ FilterIdle /\ MetadataIdle /\ UnitIdle
  /\ input_text \in InputTexts
  /\ worker \in Segmentations(input_text)
  /\ emitted = [called |-> FALSE, tokens |-> <<>>]

SpecTokenizer == InitTokenizer /\ [][NextTokenizer]_vars


\* ------------------------------------------------------ metadata conversion
\* serde_json::Value, each value as [t |-> its variant, v |-> its payload].
\* Integers are NumBits wide instead of 64: i64 is I64Min..I64Max, u64 is
\* 0..U64Max.  A Number is serde_json's PosInt(u64), NegInt(i64 < 0) or
\* Float(f64); x of a Float names a finite value that is not an integer.
NumBits == 2
I64Max == 2 ^ (NumBits - 1) - 1
I64Min == 0 - 2 ^ (NumBits - 1)
U64Max == 2 ^ NumBits - 1
MaxArray == 2

JNull == [t |-> "Null", v |-> 0]
JBool(b) == [t |-> "Bool", v |-> b]
JNumber(n, x) == [t |-> "Number", v |-> [n |-> n, x |-> x]]
JString(str) == [t |-> "String", v |-> str]
JArray(arr) == [t |-> "Array", v |-> arr]
JObject(map) == [t |-> "Object", v |-> map]

Numbers ==
  {JNumber("PosInt", x) : x \in 0..U64Max}
    \cup {JNumber("NegInt", x) : x \in I64Min..(0 - 1)}
    \cup {JNumber("Float", 1)}

Scalars ==
  {JNull, JBool(TRUE), JBool(FALSE)} \cup Numbers \cup {JString(""), JString("v")}

\* Maps over a set of keys: every subset of the keys, every value per key.
Maps(keys, values) == UNION {[K -> values] : K \in SUBSET keys}

JsonValues ==
  Scalars
    \cup {JArray(arr) : arr \in SeqsUpTo(Scalars, MaxArray)}
    \cup {JObject(map) : map \in Maps({"nested"}, Scalars)}

\* Metadata = HashMap<String, JsonValue>
MetaKeys == {"k", "tags"}
Metadatas == Maps(MetaKeys, JsonValues)

\* The order in which a map is iterated: by key.
KeyOrder == <<"k", "nested", "tags">>
KeysOf(map) == SelectSeq(KeyOrder, LAMBDA key : key \in DOMAIN map)

\* The J::Number arm of serde_json_to_owned: as_i64, then as_u64, then as_f64.
number_as_f64(n) == [t |-> "F64", v |-> n.x]
number_to_owned(n) ==
  IF n.n = "NegInt" \/ (n.n = "PosInt" /\ n.x <= I64Max)
  THEN [t |-> "I64", v |-> n.x]
  ELSE IF n.n = "PosInt"
  THEN [t |-> "U64", v |-> n.x]
  ELSE [t |-> "F64", v |-> n.x]

\* serde_json_to_owned: tantivy's OwnedValue, an Object as a Vec of (key, value).
RECURSIVE serde_json_to_owned(_)
serde_json_to_owned(value) ==
  CASE value.t = "Null" -> [t |-> "Null", v |-> 0]
    [] value.t = "Bool" -> [t |-> "Bool", v |-> value.v]
    [] value.t = "Number" -> number_to_owned(value.v)
    [] value.t = "String" -> [t |-> "Str", v |-> value.v]
    [] value.t = "Array" ->
         [t |-> "Array",
          v |-> [j \in DOMAIN value.v |-> serde_json_to_owned(value.v[j])]]
    [] value.t = "Object" ->
         [t |-> "Object",
          v |-> [j \in DOMAIN KeysOf(value.v) |->
                   [key |-> KeysOf(value.v)[j],
                    value |-> serde_json_to_owned(value.v[KeysOf(value.v)[j]])]]]

\* metadata_to_tantivy_object: BTreeMap<String, OwnedValue>
metadata_to_tantivy_object(m) == [key \in DOMAIN m |-> serde_json_to_owned(m[key])]

\* The metadata field of the TantivyDocument: `if !doc.metadata.is_empty()`.
NoField == [present |-> FALSE, object |-> <<>>]
metadata_field(m) ==
  IF DOMAIN m = {} THEN NoField
  ELSE [present |-> TRUE, object |-> metadata_to_tantivy_object(m)]

\* compact_value_to_json: serde_json::to_value of the OwnedValue (i64 becomes
\* NegInt or PosInt by its sign, u64 PosInt, a finite f64 Float).
RECURSIVE compact_value_to_json(_)
compact_value_to_json(owned) ==
  CASE owned.t = "Null" -> JNull
    [] owned.t = "Bool" -> JBool(owned.v)
    [] owned.t = "I64" ->
         IF owned.v < 0 THEN JNumber("NegInt", owned.v) ELSE JNumber("PosInt", owned.v)
    [] owned.t = "U64" -> JNumber("PosInt", owned.v)
    [] owned.t = "F64" -> JNumber("Float", owned.v)
    [] owned.t = "Str" -> JString(owned.v)
    [] owned.t = "Array" ->
         JArray([j \in DOMAIN owned.v |-> compact_value_to_json(owned.v[j])])
    [] owned.t = "Object" ->
         JObject([key \in {owned.v[j].key : j \in DOMAIN owned.v} |->
                    compact_value_to_json(
                      owned.v[CHOOSE j \in DOMAIN owned.v : owned.v[j].key = key].value)])

\* get_json_object_field: the stored object's entries, or the empty Metadata.
get_json_object_field(field) ==
  IF ~field.present THEN <<>>
  ELSE [key \in DOMAIN field.object |-> compact_value_to_json(field.object[key])]

\* A document with this metadata is ingested, committed, and returned by a
\* search that matches it.
IngestAndSearch ==
  /\ ~restored.found
  /\ restored' = [found |-> TRUE,
                  metadata |-> get_json_object_field(metadata_field(metadata))]
  /\ UNCHANGED <<feature, indexed, input_text, worker, emitted, metadata>>
  /\ UNCHANGED notFnVars

NextMetadata == IngestAndSearch

InitMetadata ==
  /\ InitQuiet /\ InitStore /\ InitService /\ FilterIdle /\ TokenizerIdle /\ UnitIdle
  /\ metadata \in Metadatas
  /\ restored = [found |-> FALSE, metadata |-> <<>>]

SpecMetadata == InitMetadata /\ [][NextMetadata]_vars


\* ----------------------------------------------------------------- Document
\* The builder methods of Document, on its metadata.
TAGS_KEY == "tags"
Tags == {"a", "b"}
MaxTags == 2
MaxBuilderCalls == 3
TagLists == SeqsUpTo(Tags, MaxTags)

\* The values and maps the builder is called with.
BuilderValues ==
  {JNull, JString("broken"), JNumber("PosInt", 1), JArray(<<JString("a")>>)}
BuilderMaps == Maps(MetaKeys, BuilderValues)

\* Document::new: Metadata::default()
document_new == <<>>

\* self.metadata.insert(key, value)
with_metadata(m, key, value) ==
  [k \in DOMAIN m \cup {key} |-> IF k = key THEN value ELSE m[k]]

\* self.metadata.extend(metadata)
with_metadata_map(m, other) ==
  [k \in DOMAIN m \cup DOMAIN other |-> IF k \in DOMAIN other THEN other[k] ELSE m[k]]

\* entry(TAGS_KEY).or_insert(Array(vec![])), then push, or overwrite what is
\* not an array.
with_tag(m, tag) ==
  LET entry == IF TAGS_KEY \in DOMAIN m THEN m[TAGS_KEY] ELSE JArray(<<>>)
  IN  with_metadata(m, TAGS_KEY,
        IF entry.t = "Array"
        THEN JArray(Append(entry.v, JString(tag)))
        ELSE JArray(<<JString(tag)>>))

\* for tag in tags { self = self.with_tag(tag) }
RECURSIVE with_tags(_, _)
with_tags(m, tags) ==
  IF tags = <<>> THEN m ELSE with_tags(with_tag(m, Head(tags)), Tail(tags))

Built(m, op) ==
  [built |-> TRUE, metadata |-> m,
   calls |-> IF op = "new" THEN 0 ELSE document.calls + 1, op |-> op]

DocumentNew ==
  /\ ~document.built
  /\ document' = Built(document_new, "new")
  /\ UNCHANGED <<notUnitVars, config, validation, en, http, tokenized, planned, writers, advancing>>

WithMetadata(key, value) ==
  /\ document.built /\ document.calls < MaxBuilderCalls
  /\ document' = Built(with_metadata(document.metadata, key, value), "with_metadata")
  /\ UNCHANGED <<notUnitVars, config, validation, en, http, tokenized, planned, writers, advancing>>

WithMetadataMap(other) ==
  /\ document.built /\ document.calls < MaxBuilderCalls
  /\ document' = Built(with_metadata_map(document.metadata, other), "with_metadata_map")
  /\ UNCHANGED <<notUnitVars, config, validation, en, http, tokenized, planned, writers, advancing>>

WithTag(tag) ==
  /\ document.built /\ document.calls < MaxBuilderCalls
  /\ document' = Built(with_tag(document.metadata, tag), "with_tag")
  /\ UNCHANGED <<notUnitVars, config, validation, en, http, tokenized, planned, writers, advancing>>

WithTags(tags) ==
  /\ document.built /\ document.calls < MaxBuilderCalls
  /\ document' = Built(with_tags(document.metadata, tags), "with_tags")
  /\ UNCHANGED <<notUnitVars, config, validation, en, http, tokenized, planned, writers, advancing>>

NextBuilder ==
  \/ DocumentNew
  \/ \E key \in MetaKeys, value \in BuilderValues : WithMetadata(key, value)
  \/ \E other \in BuilderMaps : WithMetadataMap(other)
  \/ \E tag \in Tags : WithTag(tag)
  \/ \E tags \in TagLists : WithTags(tags)

InitBuilder ==
  /\ InitQuiet /\ InitStore /\ InitService
  /\ FilterIdle /\ TokenizerIdle /\ MetadataIdle /\ UnitIdle

SpecBuilder == InitBuilder /\ [][NextBuilder]_vars


\* ------------------------------------------------------ WakeruConfig::validate
MIN_WRITER_MEMORY == 1000000
MAX_WRITER_MEMORY == 1000000000

\* The configurations validate() is called on.  A cache directory is unset
\* (None), an existing directory, an existing file, or a path that does not
\* exist and that create_dir_all can or cannot create.
WriterMemories ==
  {0, MIN_WRITER_MEMORY - 1, MIN_WRITER_MEMORY, 50000000,
   MAX_WRITER_MEMORY, MAX_WRITER_MEMORY + 1}
MaxBatchCommit == 2
CacheDirs == {"None", "Dir", "File", "Creatable", "Uncreatable"}
Configs ==
  [languages : LanguageLists, default_language : Languages,
   default_limit : Limits, max_limit : Limits,
   writer_memory_bytes : WriterMemories,
   batch_commit_size : 0..MaxBatchCommit, cache_dir : CacheDirs]

\* (MIN_WRITER_MEMORY..=MAX_WRITER_MEMORY).contains(&writer_memory)
writer_memory_exclusive(writer_memory) ==
  MIN_WRITER_MEMORY < writer_memory /\ writer_memory < MAX_WRITER_MEMORY
writer_memory_contains(writer_memory) ==
  MIN_WRITER_MEMORY <= writer_memory /\ writer_memory <= MAX_WRITER_MEMORY

\* The checks on dictionary.cache_dir, the last of validate().
validate_cache_dir(cache_dir) ==
  CASE cache_dir = "None" -> "Ok"
    [] cache_dir = "Dir" -> "Ok"
    [] cache_dir = "File" -> "InvalidDictionaryCacheDir"
    [] cache_dir = "Creatable" -> "Ok"
    [] cache_dir = "Uncreatable" -> "DictionaryCacheDirCreationFailed"

\* validate(), with the search limits looked at first.
validate_limits_first(c) ==
  IF c.default_limit < 1 THEN "InvalidSearchDefaultLimit"
  ELSE IF c.max_limit < c.default_limit THEN "InvalidSearchMaxLimit"
  ELSE IF c.languages = <<>> THEN "EmptyLanguages"
  ELSE IF ~validate(c.languages, c.default_language)
  THEN "DefaultLanguageNotInLanguages"
  ELSE IF ~writer_memory_contains(c.writer_memory_bytes)
  THEN "InvalidWriterMemoryBytes"
  ELSE IF c.batch_commit_size < 1 THEN "InvalidBatchCommitSize"
  ELSE validate_cache_dir(c.cache_dir)

\* WakeruConfig::validate: the Ok or the ConfigError it returns.
config_validate(c) ==
  IF c.languages = <<>> THEN "EmptyLanguages"
  ELSE IF c.default_language \notin {c.languages[j] : j \in DOMAIN c.languages}
  THEN "DefaultLanguageNotInLanguages"
  ELSE IF c.default_limit < 1 THEN "InvalidSearchDefaultLimit"
  ELSE IF c.max_limit < c.default_limit THEN "InvalidSearchMaxLimit"
  ELSE IF ~writer_memory_contains(c.writer_memory_bytes)
  THEN "InvalidWriterMemoryBytes"
  ELSE IF c.batch_commit_size < 1 THEN "InvalidBatchCommitSize"
  ELSE validate_cache_dir(c.cache_dir)

\* validate() is called; create_dir_all has run when every earlier check
\* passed and the cache directory did not exist.
Validate ==
  /\ ~validation.called
  /\ validation' =
       [called |-> TRUE, result |-> config_validate(config),
        created |-> /\ config_validate(config) = "Ok"
                    /\ config.cache_dir = "Creatable"]
  /\ UNCHANGED <<notUnitVars, document, config, en, http, tokenized, planned, writers, advancing>>

NextValidate == Validate

InitValidate ==
  /\ InitQuiet /\ InitStore /\ InitService
  /\ FilterIdle /\ TokenizerIdle /\ MetadataIdle /\ BuilderIdle /\ EnglishIdle /\ HttpIdle /\ TokenizationIdle /\ PlanIdle /\ WritersIdle /\ PositionsIdle
  /\ config \in Configs
  /\ validation = NotValidated

SpecValidate == InitValidate /\ [][NextValidate]_vars


\* ------------------------------------------------------- the English analyzer
\* Texts are sequences of characters: "a", "s" and their capitals "A", "S",
\* the space, and "sz" for the sharp s (U+00DF), a lowercase letter whose
\* uppercase is the two letters SS.
EnChars == {"a", "A", "s", "S", "sz", " "}
MaxEnQuery == 3
MaxEnDocs == 2
EnQueries == SeqsUpTo(EnChars, MaxEnQuery)
EnTexts == {<<"s", "s">>, <<"sz">>, <<"A", " ", "s">>, <<"a", "a", "s">>}
EnIndexes == SeqsUpTo(EnTexts, MaxEnDocs)

\* char::to_uppercase and char::to_lowercase, as the characters they yield.
char_to_uppercase(ch) ==
  CASE ch = "a" -> <<"A">>
    [] ch = "s" -> <<"S">>
    [] ch = "sz" -> <<"S", "S">>
    [] OTHER -> <<ch>>
char_to_lowercase(ch) ==
  CASE ch = "A" -> <<"a">>
    [] ch = "S" -> <<"s">>
    [] OTHER -> <<ch>>

\* str::to_uppercase
RECURSIVE to_uppercase(_)
to_uppercase(text) ==
  IF text = <<>> THEN <<>>
  ELSE char_to_uppercase(Head(text)) \o to_uppercase(Tail(text))

\* SimpleTokenizer: the maximal runs of alphanumeric characters.
RECURSIVE SimpleTokenizer(_, _, _)
SimpleTokenizer(text, run, tokens) ==
  IF text = <<>> THEN (IF run = <<>> THEN tokens ELSE Append(tokens, run))
  ELSE IF Head(text) = " "
  THEN SimpleTokenizer(Tail(text), <<>>, IF run = <<>> THEN tokens ELSE Append(tokens, run))
  ELSE SimpleTokenizer(Tail(text), Append(run, Head(text)), tokens)

\* LowerCaser: each character's to_lowercase.
RECURSIVE LowerCaser(_)
LowerCaser(token) ==
  IF token = <<>> THEN <<>>
  ELSE char_to_lowercase(Head(token)) \o LowerCaser(Tail(token))

\* Stemmer(English).  Over these letters only step 1a of the algorithm
\* applies: a word of more than two letters that ends in one s (not ss)
\* loses it when a vowel stands before the letter that precedes the s.
Stemmer(token) ==
  IF /\ Len(token) > 2
     /\ token[Len(token)] = "s"
     /\ token[Len(token) - 1] # "s"
     /\ \E j \in 1..(Len(token) - 2) : token[j] = "a"
  THEN SubSeq(token, 1, Len(token) - 1)
  ELSE token

\* en_analyzer: SimpleTokenizer, LowerCaser, Stemmer; registered under
\* text_tokenizer_name(En), it analyzes the documents and the queries.
en_analyzer(text) ==
  LET tokens == SimpleTokenizer(text, <<>>, <<>>)
  IN [j \in DOMAIN tokens |-> Stemmer(LowerCaser(tokens[j]))]

\* search_tokens_or on an English index: the documents (by position) that
\* hold one of the query's tokens, at most `limit` of them.
en_search_tokens_or(docs, query_str, limit) ==
  LET tokens == tokenize_from_stream(en_analyzer(query_str), 1, <<>>)
      hits == SelectSeq([j \in DOMAIN docs |-> j],
                LAMBDA j : \E k \in DOMAIN tokens :
                  \E i \in DOMAIN en_analyzer(docs[j]) : en_analyzer(docs[j])[i] = tokens[k])
  IN IF TermsEmpty(tokens) THEN [res |-> "Ok", tokens |-> tokens, results |-> <<>>]
     ELSE IF ~with_limit(limit) THEN [res |-> "Panic", tokens |-> tokens, results |-> <<>>]
     ELSE [res |-> "Ok", tokens |-> tokens,
           results |-> SubSeq(hits, 1, IF Len(hits) < limit THEN Len(hits) ELSE limit)]

\* A caller searches the query as typed and its uppercase on the same index.
SearchBothCases ==
  /\ ~en.called
  /\ en' = [en EXCEPT
       !.called = TRUE,
       !.as_typed = en_search_tokens_or(en.docs, en.query, en.limit),
       !.uppercased = en_search_tokens_or(en.docs, to_uppercase(en.query), en.limit)]
  /\ UNCHANGED <<notUnitVars, document, config, validation, http, tokenized, planned, writers, advancing>>

NextEnglish == SearchBothCases

InitEnglish ==
  /\ InitQuiet /\ InitStore /\ InitService
  /\ FilterIdle /\ TokenizerIdle /\ MetadataIdle /\ BuilderIdle /\ ValidateIdle /\ HttpIdle /\ TokenizationIdle /\ PlanIdle /\ WritersIdle /\ PositionsIdle
  /\ \E docs \in EnIndexes, query \in EnQueries, limit \in Limits :
       en = [NoEnglish EXCEPT !.docs = docs, !.query = query, !.limit = limit]

SpecEnglish == InitEnglish /\ [][NextEnglish]_vars


\* ------------------------------------------------------------- POST /wakeru
\* The service's limit on the text, and the limit axum's Json extractor puts
\* on a request body when the router sets none (create_router adds no
\* DefaultBodyLimit layer).
MAX_TEXT_LENGTH == 10000000
DEFAULT_BODY_LIMIT == 2097152

\* A request is a JSON body {"text":"..."} whose text has text_len bytes, of
\* which `escaped` are characters that take one more byte in JSON, sent with
\* or without a JSON content type.
MaxEscaped == 2
TextLengths ==
  {0, 1, 2, 1000, 5000000, DEFAULT_BODY_LIMIT - 12, DEFAULT_BODY_LIMIT - 11,
   DEFAULT_BODY_LIMIT - 10, DEFAULT_BODY_LIMIT, MAX_TEXT_LENGTH - 1,
   MAX_TEXT_LENGTH, MAX_TEXT_LENGTH + 1}
ContentTypes == {"application/json", "none"}
Requests ==
  {r \in [text_len : TextLengths, escaped : 0..MaxEscaped, content_type : ContentTypes] :
     r.escaped <= r.text_len}

\* The bytes of the body: {"text":" and "} around the escaped text.
body_len(r) == 11 + r.text_len + r.escaped

\* The extractor's body limit.
body_within_limit(r) == body_len(r) <= DEFAULT_BODY_LIMIT

Respond(status, error_code) ==
  [http EXCEPT !.stage = "responded", !.status = status, !.code = error_code]

\* Json<WakeruRequest>: the content type, then the body within the limit.
Extract ==
  /\ http.stage = "received"
  /\ http' =
       IF http.content_type # "application/json"
       THEN Respond(415, "unsupported_media_type")
       ELSE IF ~body_within_limit(http)
       THEN Respond(413, "payload_too_large")
       ELSE [http EXCEPT !.stage = "extracted"]
  /\ UNCHANGED <<notUnitVars, document, config, validation, en, tokenized, planned, writers, advancing>>

\* post_wakeru: service.analyze(request) and the response made of its result.
PostWakeru ==
  /\ http.stage = "extracted"
  /\ http' =
       IF http.text_len = 0
       THEN [Respond(400, "invalid_input") EXCEPT !.analyzed = TRUE]
       ELSE IF http.text_len > MAX_TEXT_LENGTH
       THEN [Respond(400, "text_too_long") EXCEPT !.analyzed = TRUE]
       ELSE [Respond(200, "ok") EXCEPT !.analyzed = TRUE]
  /\ UNCHANGED <<notUnitVars, document, config, validation, en, tokenized, planned, writers, advancing>>

NextHttp == Extract \/ PostWakeru

InitHttp ==
  /\ InitQuiet /\ InitStore /\ InitService
  /\ FilterIdle /\ TokenizerIdle /\ MetadataIdle
  /\ BuilderIdle /\ ValidateIdle /\ EnglishIdle /\ TokenizationIdle /\ PlanIdle /\ WritersIdle /\ PositionsIdle
  /\ \E r \in Requests :
       http = [NoRequest EXCEPT !.text_len = r.text_len, !.escaped = r.escaped,
                                !.content_type = r.content_type, !.stage = "received"]

SpecHttp == InitHttp /\ [][NextHttp]_vars


\* ----------------------------------------------------- tokenize_from_stream
\* A token stream is the sequence of the token texts its advance() yields.
TokenTexts == {"", "rust", "search"}
MaxStream == 4
TokenStreams == SeqsUpTo(TokenTexts, MaxStream)
TermFields == {"text", "text_ngram"}

\* Term::from_field_text(field, &token.text)
from_field_text(field, text) == [field |-> field, text |-> text]

\* seen.insert(token.text.clone()): whether the text was not yet in the set.
seen_insert_always(seen, text) == TRUE
seen_insert(seen, text) == text \notin seen

\* The `while token_stream.advance()` loop of tokenize_from_stream, from the
\* k-th token on, and the TokenizationResult it ends with.
RECURSIVE TokenizationResult(_, _, _, _, _, _)
TokenizationResult(stream, field, k, seen, terms, query_tokens) ==
  IF k > Len(stream)
  THEN [terms |-> terms, query_tokens |-> query_tokens]
  ELSE IF stream[k] = ""
  THEN TokenizationResult(stream, field, k + 1, seen, terms, query_tokens)
  ELSE IF ~seen_insert(seen, stream[k])
  THEN TokenizationResult(stream, field, k + 1, seen, terms, query_tokens)
  ELSE TokenizationResult(stream, field, k + 1,
         seen \cup {stream[k]},
         Append(terms, from_field_text(field, stream[k])),
         Append(query_tokens, stream[k]))

TokenizeFromStream ==
  /\ ~tokenized.called
  /\ LET result == TokenizationResult(tokenized.stream, tokenized.field, 1, {}, <<>>, <<>>)
     IN tokenized' = [tokenized EXCEPT !.called = TRUE, !.terms = result.terms,
                                       !.query_tokens = result.query_tokens]
  /\ UNCHANGED <<notUnitVars, document, config, validation, en, http, planned, writers, advancing>>

NextTokenization == TokenizeFromStream

InitTokenization ==
  /\ InitQuiet /\ InitStore /\ InitService
  /\ FilterIdle /\ TokenizerIdle /\ MetadataIdle
  /\ BuilderIdle /\ ValidateIdle /\ EnglishIdle /\ HttpIdle /\ PlanIdle /\ WritersIdle /\ PositionsIdle
  /\ \E stream \in TokenStreams, field \in TermFields :
       tokenized = [NoTokenization EXCEPT !.stream = stream, !.field = field]

SpecTokenization == InitTokenization /\ [][NextTokenization]_vars


\* ------------------------------------------- search_tokens_or: the query built
\* Query tokens are sequences of characters; a character is one Unicode
\* scalar, of one byte ("a") or of three ("k").
MaxTokenChars == 2
MaxQueryTokens == 3
QueryTokens == SeqsUpTo(TextChars, MaxTokenChars) \ {<<>>}
\* The query_tokens of a TokenizationResult: distinct non-empty texts.
QueryTokenLists ==
  {q \in SeqsUpTo(QueryTokens, MaxQueryTokens) :
     \A i, j \in DOMAIN q : q[i] = q[j] => i = j}

\* Language::ngram_tokenizer_name, and with it SchemaFields.text_ngram.
ngram_tokenizer_name(language) == IF language = "Ja" THEN "ja_ngram" ELSE "None"
has_text_ngram(language) == ngram_tokenizer_name(language) # "None"

\* token.len(): the bytes of the token.
len_bytes(token) == Len(Bytes(token))
\* token.chars().count()
chars_count(token) == Len(token)

\* The terms on text_ngram: the tokens of one character, when the field exists.
ngram_terms_of(language, query_tokens) ==
  IF has_text_ngram(language)
  THEN LET ones == SelectSeq(query_tokens, LAMBDA token : chars_count(token) = 1)
       IN [j \in DOMAIN ones |-> from_field_text("text_ngram", ones[j])]
  ELSE <<>>

TermSetQuery(terms) == [kind |-> "TermSet", terms |-> terms]

\* The query search_tokens_or executes, or none when there are no terms.
build_query(morph_terms, ngram_terms) ==
  IF TermsEmpty(morph_terms) THEN NoQuery
  ELSE IF ngram_terms = <<>>
  THEN [kind |-> "TermSet", subqueries |-> <<TermSetQuery(morph_terms)>>]
  ELSE [kind |-> "Boolean",
        subqueries |-> <<[occur |-> "Should", query |-> TermSetQuery(morph_terms)],
                         [occur |-> "Should", query |-> TermSetQuery(ngram_terms)]>>]

BuildQuery ==
  /\ ~planned.called
  /\ LET morph_terms ==
           [j \in DOMAIN planned.query_tokens |->
              from_field_text("text", planned.query_tokens[j])]
         ngram_terms == ngram_terms_of(planned.language, planned.query_tokens)
     IN planned' = [planned EXCEPT
          !.called = TRUE, !.morph_terms = morph_terms,
          !.ngram_terms = IF TermsEmpty(morph_terms) THEN <<>> ELSE ngram_terms,
          !.query = build_query(morph_terms, ngram_terms)]
  /\ UNCHANGED <<notUnitVars, document, config, validation, en, http, tokenized, writers, advancing>>

NextPlan == BuildQuery

InitPlan ==
  /\ InitQuiet /\ InitStore /\ InitService
  /\ FilterIdle /\ TokenizerIdle /\ MetadataIdle
  /\ BuilderIdle /\ ValidateIdle /\ EnglishIdle /\ HttpIdle /\ TokenizationIdle /\ WritersIdle /\ PositionsIdle
  /\ \E language \in Languages, query_tokens \in QueryTokenLists :
       planned = [NoPlan EXCEPT !.language = language, !.query_tokens = query_tokens]

SpecPlan == InitPlan /\ [][NextPlan]_vars


\* -------------------------------------------- the index writer's memory budget
\* self.index.writer(50_000_000)
WRITER_MEMORY == 50000000
MaxWriters == 2

\* WakeruService::init(config): config.validate()?, then the indexes.
WritersInit ==
  /\ writers.init = "none"
  /\ writers' = [writers EXCEPT
       !.init = IF config_validate(config) = "Ok" THEN "Ok" ELSE "Err"]
  /\ UNCHANGED <<notUnitVars, document, config, validation, en, http, tokenized, planned, advancing>>

\* add_documents on an index of the service: the writer it opens.
WritersAddDocuments ==
  /\ writers.init = "Ok"
  /\ Len(writers.budgets) < MaxWriters
  /\ writers' = [writers EXCEPT !.budgets = Append(@, WRITER_MEMORY)]
  /\ UNCHANGED <<notUnitVars, document, config, validation, en, http, tokenized, planned, advancing>>

NextWriters == WritersInit \/ WritersAddDocuments

InitWriters ==
  /\ InitQuiet /\ InitStore /\ InitService
  /\ FilterIdle /\ TokenizerIdle /\ MetadataIdle
  /\ BuilderIdle /\ EnglishIdle /\ HttpIdle /\ TokenizationIdle /\ PlanIdle /\ PositionsIdle
  /\ config \in Configs
  /\ validation = NotValidated
  /\ writers = NoWriters

SpecWriters == InitWriters /\ [][NextWriters]_vars


\* ------------------------------------------ VibratoTokenStream::advance
\* usize is UsizeBits wide instead of 64.
UsizeBits == 3
USIZE_MAX == 2 ^ UsizeBits - 1
MaxStreams == 2

saturating_add(x, y) == IF x + y > USIZE_MAX THEN USIZE_MAX ELSE x + y

\* usize::wrapping_add
wrapping_add(x, y) == (x + y) % (2 ^ UsizeBits)

\* Token::default(): position is usize::MAX, position_length is 1.
Token_default ==
  [text |-> <<>>, offset_from |-> 0, offset_to |-> 0,
   position |-> USIZE_MAX, position_length |-> 1]

\* The `for token in worker.token_iter()` loop of token_stream: the
\* (surface, start, end) of every indexed worker token, from w[k] on.
RECURSIVE indexed_tokens(_, _, _, _)
indexed_tokens(text, w, k, tokens) ==
  IF k > Len(w) THEN tokens
  ELSE IF should_index(w[k].feature)
       THEN indexed_tokens(text, w, k + 1,
              Append(tokens,
                [surface |-> surface(text, w[k]),
                 start |-> range_byte(text, w[k]).start,
                 end |-> range_byte(text, w[k]).end]))
       ELSE indexed_tokens(text, w, k + 1, tokens)

\* tokenizer.token_stream(text): a new stream over the indexed tokens, with
\* a Token of its own.
NewTokenStream ==
  /\ advancing.streams < MaxStreams
  /\ \E text \in InputTexts : \E w \in Segmentations(text) :
       advancing' =
         [streams |-> advancing.streams + 1,
          kept |-> [k \in DOMAIN w |-> should_index(w[k].feature)],
          tokens |-> indexed_tokens(text, w, 1, <<>>),
          token |-> Token_default,
          yielded |-> <<>>,
          exhausted |-> FALSE]
  /\ UNCHANGED <<notUnitVars, document, config, validation, en, http, tokenized, planned, writers>>

\* stream.advance(): the next token into the stream's Token and true, or
\* false at the end of the tokens.
Advance ==
  /\ advancing.streams > 0
  /\ ~advancing.exhausted
  /\ IF advancing.tokens # <<>>
     THEN LET next == Head(advancing.tokens)
              token == [text |-> next.surface,
                        offset_from |-> next.start,
                        offset_to |-> next.end,
                        position |-> wrapping_add(advancing.token.position, 1),
                        position_length |-> 1]
          IN advancing' = [advancing EXCEPT
               !.tokens = Tail(@),
               !.token = token,
               !.yielded = Append(@, token)]
     ELSE advancing' = [advancing EXCEPT !.exhausted = TRUE]
  /\ UNCHANGED <<notUnitVars, document, config, validation, en, http, tokenized, planned, writers>>

NextPositions == NewTokenStream \/ Advance

InitPositions ==
  /\ InitQuiet /\ InitStore /\ InitService
  /\ FilterIdle /\ TokenizerIdle /\ MetadataIdle
  /\ BuilderIdle /\ ValidateIdle /\ EnglishIdle /\ HttpIdle
  /\ TokenizationIdle /\ PlanIdle /\ WritersIdle
  /\ advancing = NoStream

SpecPositions == InitPositions /\ [][NextPositions]_vars


TypeOK ==
  /\ writerLock \in Threads \cup {NoThread}
  /\ readerGen \in 0..Len(committed)
  /\ \A t \in Threads : pc[t] \in {"idle", "start", "searcher", "loop", "commit", "reload"}

\* --------------------------------------------------------------- the claims
\* The documents of `docs` that call c staged.
DocsOfCall(docs, c) == SelectSeq(docs, LAMBDA d : d.call = c)

\* A call none of whose steps overlapped another call.
Sequential(c) == log[c].overlaps = {}

FirstOccurrence(batch, id) ==
  batch[CHOOSE j \in DOMAIN batch :
          /\ batch[j].id = id
          /\ \A k \in 1..(j - 1) : batch[k].id # id]

\* C1. Dedup monotonicity: a sequential add_documents(B) that returns Ok
\* reports total = |B| = added + skipped_duplicates, and the ids a searcher
\* taken at its return sees are C, the ids committed before the call, together
\* with the ids of B not in C, each of these held by exactly one document: the
\* first one of B with that id.
C1_DedupMonotonicity ==
  \A c \in DOMAIN log :
    LET r == log[c]
        B == r.batch
        C == IdsOf(Prefix(committed, r.pre))
        vis == Visible(r.retGen)
    IN (r.res = "Ok" /\ Sequential(c)) =>
         /\ r.report.total = Len(B)
         /\ r.report.total = r.report.added + r.report.skipped_duplicates
         /\ IdsOf(vis) = C \cup {B[j].id : j \in {k \in DOMAIN B : B[k].id \notin C}}
         /\ \A id \in IdsOf(B) \ C :
              \E j \in DOMAIN vis :
                /\ vis[j].id = id
                /\ vis[j].text = FirstOccurrence(B, id).text
                /\ \A k \in DOMAIN vis : vis[k].id = id => k = j

\* A sequential Ok call on a non-empty index whose batch repeats a new id and
\* so both adds and skips.
C1_Witness ==
  \E c \in DOMAIN log :
    /\ log[c].res = "Ok" /\ Sequential(c)
    /\ log[c].pre > 0
    /\ Len(log[c].batch) = 2
    /\ log[c].batch[1].id = log[c].batch[2].id
    /\ log[c].batch[1].text # log[c].batch[2].text
    /\ log[c].report.added = 1
    /\ log[c].report.skipped_duplicates = 1

\* C2. First write wins: the index holds at most one committed document per
\* id, and a call that returned Ok staged no document whose id was committed
\* before the call started.
C2_FirstWriteWins ==
  /\ \A i, j \in DOMAIN committed : committed[i].id = committed[j].id => i = j
  /\ \A c \in ReturnedOk :
       IdsOf(log[c].staged) \cap IdsOf(Prefix(committed, log[c].pre)) = {}

\* C3. Idempotent re-ingest: when add_documents(B) returns Ok twice in a row,
\* both calls sequential, the second reports added = 0 and
\* skipped_duplicates = |B| and the index is at its return as it was at its
\* start.
C3_IdempotentReingest ==
  \A c \in DOMAIN log \ {1} :
    LET r == log[c]
        p == log[c - 1]
    IN (/\ r.res = "Ok" /\ p.res = "Ok"
        /\ Sequential(c) /\ Sequential(c - 1)
        /\ r.batch = p.batch) =>
         /\ r.report.added = 0
         /\ r.report.skipped_duplicates = Len(r.batch)
         /\ r.post = r.pre

\* The same batch, with a repeated id, ingested twice in a row; the first
\* ingest added a document.
C3_Witness ==
  \E c \in DOMAIN log \ {1} :
    /\ log[c].res = "Ok" /\ log[c - 1].res = "Ok"
    /\ Sequential(c) /\ Sequential(c - 1)
    /\ log[c].batch = log[c - 1].batch
    /\ Len(log[c].batch) = 2
    /\ log[c].batch[1].id = log[c].batch[2].id
    /\ log[c - 1].report.added = 1
    /\ log[c].report.skipped_duplicates = 2

\* The generations any searcher or reader of the model stands at.
ViewerGens ==
  {readerGen, engine.gen} \cup {snap[t] : t \in Threads}
    \cup ({held.gen, lastSearch} \ {-1})

\* C4 as claimed: a call that returned Ok committed all the documents it
\* staged, a call that returned Err (at whatever step) committed none, and
\* no searcher sees some but not all documents of one call.
C4_ErrCommitsNothing ==
  \A c \in Returned :
    /\ log[c].res = "Ok" => DocsOfCall(committed, c) = log[c].staged
    /\ log[c].res = "Err" => DocsOfCall(committed, c) = <<>>
    /\ \A g \in ViewerGens : DocsOfCall(Visible(g), c) \in {<<>>, log[c].staged}

\* C4, amended. All-or-nothing batch commit: the documents a call staged are
\* committed all together when its commit succeeded (the call returned Ok, or
\* returned Err from the reader reload after the commit) and not at all when
\* it returned Err at an earlier step; no searcher sees some but not all of
\* them.
C4_AllOrNothing ==
  \A c \in DOMAIN log :
    LET r == log[c]
        mine == DocsOfCall(committed, c)
    IN /\ (r.res = "Ok" \/ (r.res = "Err" /\ r.errAt = "reload")) => mine = r.staged
       /\ (r.res = "Err" /\ r.errAt # "reload") => mine = <<>>
       /\ \A g \in ViewerGens : DocsOfCall(Visible(g), c) \in {<<>>, r.staged}

\* A call that staged two documents, committed them and then returned Err from
\* the reader reload; another that staged one and returned Err from the commit.
C4_Witness ==
  \E c, e \in Returned :
    /\ log[c].res = "Err" /\ log[c].errAt = "reload"
    /\ Len(log[c].staged) = 2
    /\ DocsOfCall(committed, c) = log[c].staged
    /\ e # c /\ log[e].res = "Ok" /\ Len(log[e].staged) > 0

Overlapping(c, d) == d \in log[c].overlaps

\* C5. Overlapping ingests never double-add: of two overlapping calls whose
\* batches share an id that was committed before neither, at most one returns
\* a report that counts a document with that id as added, and the index holds
\* at most one document with it.
C5_NeverDoubleAdd ==
  \A c, d \in DOMAIN log :
    (c < d /\ Overlapping(c, d)) =>
      \A id \in (IdsOf(log[c].batch) \cap IdsOf(log[d].batch))
                  \ IdsOf(Prefix(committed, log[c].pre)) :
        /\ ~(/\ log[c].res = "Ok" /\ id \in IdsOf(log[c].staged)
              /\ log[d].res = "Ok" /\ id \in IdsOf(log[d].staged))
        /\ doc_freq(committed, id) <= 1

HoldsWriter(t) == pc[t] \in {"searcher", "loop", "commit", "reload"}

SeesCall(g, c) == DocsOfCall(Visible(g), c) = DocsOfCall(committed, c)

\* A held searcher reads what it read when it was taken.
HeldIsolated == held # NoSearcher => Visible(held.gen) = held.docs

\* C7 as claimed: a held searcher keeps its view, and a searcher taken from
\* the IndexManager's reader once add_documents has returned (with Ok or with
\* Err) sees what the call committed.
C7_SeenAfterReturn ==
  /\ HeldIsolated
  /\ \A c \in Returned : SeesCall(log[c].retGen, c)

\* C7, amended. Snapshot isolation of searchers: a held searcher keeps seeing
\* exactly the documents it saw when it was taken, and a searcher taken from
\* the IndexManager's reader once add_documents has returned Ok sees what the
\* call committed.
C7_SnapshotIsolation ==
  /\ HeldIsolated
  /\ \A c \in ReturnedOk :
       /\ SeesCall(log[c].retGen, c)
       /\ readerGen >= log[c].retGen

\* A searcher taken before a call's commit and held across it: it still reads
\* the pre-commit documents, the reader reads the call's documents.
C7_Witness ==
  \E c \in ReturnedOk :
    /\ Len(log[c].staged) > 0
    /\ held # NoSearcher
    /\ held.gen = log[c].pre
    /\ DocsOfCall(Visible(held.gen), c) = <<>>
    /\ DocsOfCall(Visible(readerGen), c) = log[c].staged

\* A step of SearchEngine::search / search_tokens_or.
SearchStep == lastSearch' # lastSearch /\ lastSearch' # NoSearch

Range(f) == {f[j] : j \in DOMAIN f}

\* C9. Exactly-once initialization: load_inner runs at most once per manager,
\* every load() on the manager returns what that one execution produced, and
\* the managers initialize independently (a result of one is never returned
\* by the other).
C9_ExactlyOnceInit ==
  \A m \in Managers :
    /\ inner[m] <= 1
    /\ \A o \in Range(returned[m]) : o.val = <<m, 1>> /\ inner[m] = 1
    /\ \A n \in Managers \ {m} : Range(returned[m]) \cap Range(returned[n]) = {}

\* Two load() calls on one manager have returned the result of its one
\* load_inner execution; the other manager was initialized too, with the
\* opposite outcome.
C9_Witness ==
  \E m, n \in Managers :
    /\ m # n
    /\ Len(returned[m]) >= 2
    /\ inner[m] = 1 /\ inner[n] = 1
    /\ Len(returned[n]) >= 1
    /\ returned[m][1].ok # returned[n][1].ok

\* C10. Sticky first outcome: every load() on a manager returns the outcome
\* the first completed load() returned, whatever has become of its cause.
C10_StickyOutcome ==
  \A m \in Managers :
    \A j \in DOMAIN returned[m] : returned[m][j] = returned[m][1]

\* A first load that failed, and a later load on the same manager that
\* returned the same error while the dictionary had become loadable.
C10_Witness ==
  \E m \in Managers :
    /\ Len(returned[m]) >= 3
    /\ ~returned[m][1].ok
    /\ source[m]
    /\ dictionary[m] = returned[m][1]

\* --------------------------------------------------------------------------
\* C11. Schema-tokenizer binding: every IndexManager that open_or_create
\* returned has a schema whose text field records
\* language.text_tokenizer_name(), and that is the schema of the index in its
\* directory; every open_or_create on an existing index whose recorded
\* tokenizer name differs from the language's returned
\* LanguageSchemaMismatch and no manager, and left the directory as it was.
C11_SchemaTokenizerBinding ==
  /\ \A m \in DOMAIN managers :
       /\ managers[m].schema = text_tokenizer_name(managers[m].language)
       /\ disk[managers[m].path].meta
       /\ disk[managers[m].path].tokenizer = managers[m].schema
  /\ \A i \in DOMAIN opens :
       LET o == opens[i]
       IN (o.existed /\ o.before.tokenizer # text_tokenizer_name(o.language))
            => /\ o.res = "LanguageSchemaMismatch"
               /\ o.manager = 0
               /\ o.after = o.before

\* A manager was returned, and a later open of its index with the other
\* language failed with LanguageSchemaMismatch.
C11_Witness ==
  \E i, j \in DOMAIN opens :
    /\ i < j
    /\ opens[i].res = "Ok"
    /\ opens[j].path = opens[i].path
    /\ opens[j].language # opens[i].language
    /\ opens[j].res = "LanguageSchemaMismatch"

C13_PersistenceAcrossReopen ==
  /\ \A i \in DOMAIN opens :
       LET o == opens[i]
       IN /\ o.created = ~o.existed
          /\ o.existed => o.after = o.before
          /\ o.created => o.after = create_in_dir(build_schema(o.language))
          /\ o.res = "Ok" => o.view = o.after.docs
  /\ \A j \in DOMAIN adds, i \in DOMAIN opens :
       (/\ opens[i].at > adds[j].at
        /\ opens[i].path = adds[j].path
        /\ opens[i].res = "Ok")
         => \A k \in DOMAIN adds[j].staged :
              \E n \in DOMAIN opens[i].view : opens[i].view[n] = adds[j].staged[k]
  /\ \A j \in DOMAIN adds :
       \A k \in DOMAIN adds[j].staged :
         \E n \in DOMAIN disk[adds[j].path].docs :
           disk[adds[j].path].docs[n] = adds[j].staged[k]

\* Documents were committed through one manager and a manager opened later
\* on the same path sees them.
C13_Witness ==
  \E j \in DOMAIN adds, i \in DOMAIN opens :
    /\ adds[j].staged # <<>>
    /\ opens[i].at > adds[j].at
    /\ opens[i].path = adds[j].path
    /\ opens[i].res = "Ok"
    /\ opens[i].manager # adds[j].manager
    /\ opens[i].view # <<>>

\* --------------------------------------------------------------------------
\* C14. Service language routing: the latest service operation, when its
\* language was not in the configured supported set, returned
\* UnsupportedLanguage, read no index directory and changed none.
C14_UnsupportedLanguage ==
  (lastOp.op \in {"index", "search", "search_tokens_or"}
     /\ lastOp.language \notin lastOp.supported)
    => /\ lastOp.res = "UnsupportedLanguage"
       /\ lastOp.read = {}
       /\ lastOp.wrote = {}
       /\ lastOp.results = <<>>
       /\ ~lastOp.queried

\* An operation on an unsupported language was refused while the index of
\* the supported language holds documents.
C14_Witness ==
  /\ lastOp.op \in {"index", "search", "search_tokens_or"}
  /\ lastOp.language \notin lastOp.supported
  /\ lastOp.res = "UnsupportedLanguage"
  /\ \E l \in lastOp.supported : disk[index_path_for_language(l)].docs # <<>>

\* --------------------------------------------------------------------------
\* C15. Cross-language isolation: every document the service ingested with
\* language L is stored in the index under {base}/{code(L)} and in no other;
\* a search or search_tokens_or with language L returns only documents that
\* were ingested with L; an ingest with L changes no directory but L's.
C15_CrossLanguageIsolation ==
  /\ \A p \in Paths : \A j \in DOMAIN disk[p].docs :
       disk[p].docs[j].call > 0
         => index_path_for_language(ingested[disk[p].docs[j].call]) = p
  /\ (lastOp.op \in {"search", "search_tokens_or"} /\ lastOp.res = "Ok")
       => \A j \in DOMAIN lastOp.results :
            ingested[lastOp.results[j].call] = lastOp.language
  /\ lastOp.op = "index"
       => lastOp.wrote \subseteq {index_path_for_language(lastOp.language)}

\* A search with one language returned its own document although the other
\* language's index holds a document with the searched word.
C15_Witness ==
  /\ lastOp.op \in {"search", "search_tokens_or"}
  /\ lastOp.res = "Ok"
  /\ lastOp.results # <<>>
  /\ \E l \in Languages \ {lastOp.language} :
       \E j \in DOMAIN disk[index_path_for_language(l)].docs :
         disk[index_path_for_language(l)].docs[j].text
           \in {lastOp.terms[k] : k \in DOMAIN lastOp.terms}

\* --------------------------------------------------------------------------
\* C16. Result cardinality bound: the latest search or search_tokens_or, for
\* any query and any limit >= 0, returned a result value (Ok or Err, never a
\* panic) that holds at most `limit` entries.
C16_ResultCardinalityBound ==
  lastOp.op \in {"search", "search_tokens_or"}
    => /\ lastOp.res \in {"Ok", "InvalidQuery", "UnsupportedLanguage"}
       /\ Len(lastOp.results) <= lastOp.limit

\* --------------------------------------------------------------------------
\* C17. search_tokens_or whose query tokenization yields no terms returned
\* Ok with an empty result list and executed no index query, for every limit.
C17_EmptyTokenization ==
  (/\ lastOp.op = "search_tokens_or"
   /\ lastOp.language \in lastOp.supported
   /\ tokenize_query(lastOp.query) = <<>>)
    => /\ lastOp.res = "Ok"
       /\ lastOp.results = <<>>
       /\ ~lastOp.queried

\* A non-empty query whose tokens are all dropped, with limit 0, on an index
\* that holds documents.
C17_Witness ==
  /\ lastOp.op = "search_tokens_or"
  /\ lastOp.query # <<>>
  /\ tokenize_query(lastOp.query) = <<>>
  /\ lastOp.limit = 0
  /\ lastOp.res = "Ok"
  /\ disk[index_path_for_language(lastOp.language)].docs # <<>>

\* --------------------------------------------------------------------------
\* The prefixes and vectors the filter's decision is stated with.
C18_Rejected(f) ==
  \E w \in {Word.joshi, Word.jodoushi, Word.kigou, Word.filler, Word.kandoushi,
            Word.setsuzokushi, Word.settoushi, Word.rentaishi} :
    starts_with(f, w)

C18_Accepted(f) ==
  \/ starts_with(f, Fields(Word.setsubiji, Word.meishiteki))
  \/ /\ starts_with(f, Word.meishi)
     /\ ~starts_with(f, Fields(Word.meishi, Word.daimeishi))
     /\ ~starts_with(f, Fields(Word.meishi, Word.hijiritsu))
  \/ starts_with(f, Word.doushi)
  \/ starts_with(f, Word.keiyoushi)
  \/ starts_with(f, Word.keijoushi)
  \/ starts_with(f, Fields(Word.fukushi, Word.ippan))

C18_IndexVectors ==
  {Fields(Fields(Word.meishi, Word.ippan), Fields(Word.star, Word.star)),
   Fields(Fields(Word.meishi, Word.koyuumeishi), Word.star),
   Fields(Fields(Word.meishi, Word.sahensetsuzoku), Word.star),
   Fields(Fields(Word.doushi, Word.jiritsu), Word.star),
   Fields(Fields(Word.keiyoushi, Word.jiritsu), Word.star),
   Fields(Fields(Word.keijoushi, Word.ippan), Word.star),
   Fields(Fields(Word.fukushi, Word.ippan), Word.star),
   Fields(Fields(Word.setsubiji, Word.meishiteki), Word.ippan)}

\* C18. Content-word filter decision: should_index(f) is true exactly when f
\* begins with none of the eight rejected prefixes and begins with
\* "suffix,nominal", or with "noun" but neither "noun,pronoun" nor
\* "noun,non-independent", or with "verb", "adjective", "adjectival noun" or
\* "adverb,general"; and it decides the twenty vectors of the table (eight
\* index, twelve skip) as listed.
C18_ContentWordFilter ==
  indexed.called
    => /\ indexed.result = (~C18_Rejected(feature) /\ C18_Accepted(feature))
       /\ feature \in TestFeatures
            => indexed.result = (feature \in C18_IndexVectors)
       /\ feature = <<>> => ~indexed.result

\* should_index has decided a pronoun: a noun that is skipped.
C18_Witness ==
  /\ indexed.called
  /\ starts_with(feature, Fields(Word.meishi, Word.daimeishi))
  /\ feature \in TestFeatures
  /\ ~indexed.result

\* The tokens of the segmenter that pass should_index, in order.
C19_IndexedTokens == SelectSeq(worker, LAMBDA t : should_index(t.feature))

\* --------------------------------------------------------------------------
\* C19. Byte-offset correctness: every token the adapter emitted on input
\* text s has 0 <= offset_from < offset_to <= len(s) in bytes, and the bytes
\* s[offset_from..offset_to] are the token's text; the emitted tokens are the
\* indexed tokens of the segmenter, in order, each at the byte range it has
\* in the unfiltered segmentation.
C19_ByteOffsets ==
  emitted.called
    => /\ \A k \in DOMAIN emitted.tokens :
            LET token == emitted.tokens[k]
            IN /\ 0 <= token.offset_from
               /\ token.offset_from < token.offset_to
               /\ token.offset_to <= Len(Bytes(input_text))
               /\ SubSeq(Bytes(input_text), token.offset_from + 1, token.offset_to)
                    = Bytes(token.text)
       /\ Len(emitted.tokens) = Len(C19_IndexedTokens)
       /\ \A k \in DOMAIN emitted.tokens :
            LET t == C19_IndexedTokens[k]
            IN /\ emitted.tokens[k].text = SubSeq(input_text, t.s + 1, t.e)
               /\ emitted.tokens[k].offset_from
                    = Len(Bytes(SubSeq(input_text, 1, t.s)))
               /\ emitted.tokens[k].offset_to
                    = Len(Bytes(SubSeq(input_text, 1, t.e)))

\* A token was dropped before an emitted token that follows a three-byte
\* character.
C19_Witness ==
  /\ emitted.called
  /\ Len(emitted.tokens) < Len(worker)
  /\ \E k \in DOMAIN emitted.tokens :
       /\ emitted.tokens[k].offset_from >= 3
       /\ ~should_index(worker[1].feature)
       /\ input_text[1] = "k"

\* --------------------------------------------------------------------------
\* C20. Metadata round-trip: the metadata restored in the SearchResult of an
\* ingested document equals the document's metadata M, key for key and
\* value for value (null, bool, i64, u64, f64, string, array, object; the
\* empty M included), and a tags key that is an array is restored as that
\* array.
C20_MetadataRoundTrip ==
  restored.found
    => /\ DOMAIN restored.metadata = DOMAIN metadata
       /\ \A key \in DOMAIN metadata : restored.metadata[key] = metadata[key]
       /\ ("tags" \in DOMAIN metadata /\ metadata["tags"].t = "Array")
            => /\ restored.metadata["tags"].t = "Array"
               /\ restored.metadata["tags"].v = metadata["tags"].v

\* A document whose tags are an array of two strings and whose other key is
\* an integer above i64::MAX was restored.
C20_Witness ==
  /\ restored.found
  /\ DOMAIN metadata = {"k", "tags"}
  /\ metadata["tags"] = JArray(<<JString("v"), JString("")>>)
  /\ metadata["k"] = JNumber("PosInt", U64Max)
  /\ restored.metadata["k"].t = "Number"

\* --------------------------------------------------------------------------
\* C21. Tags are always an array: in a Document produced by any sequence of
\* the builder operations (new, with_metadata, with_metadata_map, with_tag,
\* with_tags), metadata["tags"], if present, is a JSON array.
C21_TagsAlwaysArray ==
  (document.built /\ TAGS_KEY \in DOMAIN document.metadata)
    => document.metadata[TAGS_KEY].t = "Array"

\* The checks of a configuration, as whether each one fails, in the order
\* the claims list them.
C22_Fails ==
  <<config.languages = <<>>,
    ~(\E j \in DOMAIN config.languages : config.languages[j] = config.default_language),
    config.default_limit < 1,
    config.max_limit < config.default_limit,
    config.writer_memory_bytes < 1000000 \/ config.writer_memory_bytes > 1000000000,
    config.batch_commit_size < 1,
    config.cache_dir \in {"File", "Uncreatable"}>>

C22_Errors ==
  <<{"EmptyLanguages"}, {"DefaultLanguageNotInLanguages"},
    {"InvalidSearchDefaultLimit"}, {"InvalidSearchMaxLimit"},
    {"InvalidWriterMemoryBytes"}, {"InvalidBatchCommitSize"},
    {"InvalidDictionaryCacheDir", "DictionaryCacheDirCreationFailed"}>>

\* --------------------------------------------------------------------------
\* C22. Validation priority: validate() returns the error of the first
\* failing check in the order empty languages, default language not in
\* languages, default_limit < 1, max_limit < default_limit, writer memory out
\* of range, batch_commit_size < 1, cache-dir validity; a later check is
\* never reported while an earlier one fails.
C22_ValidationPriority ==
  validation.called
    => \A i \in DOMAIN C22_Fails :
         (validation.result \in C22_Errors[i])
           <=> (C22_Fails[i] /\ \A j \in 1..(i - 1) : ~C22_Fails[j])

\* validate() was called on a configuration whose default language is not
\* among its languages and whose default_limit, writer memory, batch size and
\* cache directory are invalid too.
C22_Witness ==
  /\ validation.called
  /\ ~C22_Fails[1]
  /\ \A i \in {2, 3, 5, 6, 7} : C22_Fails[i]
  /\ validation.result = "DefaultLanguageNotInLanguages"

\* --------------------------------------------------------------------------
\* C23. Validation acceptance: validate() returns Ok exactly when languages
\* is non-empty, default_language is a member of it, 1 <= default_limit <=
\* max_limit, 1_000_000 <= writer_memory_bytes <= 1_000_000_000 (999_999 and
\* 1_000_000_001 fail), batch_commit_size >= 1, and the cache directory is
\* unset, an existing directory, or creatable.
C23_ValidationAcceptance ==
  validation.called
    => /\ (validation.result = "Ok")
            <=> /\ Len(config.languages) >= 1
                /\ \E j \in DOMAIN config.languages :
                     config.languages[j] = config.default_language
                /\ 1 <= config.default_limit
                /\ config.default_limit <= config.max_limit
                /\ 1000000 <= config.writer_memory_bytes
                /\ config.writer_memory_bytes <= 1000000000
                /\ config.batch_commit_size >= 1
                /\ config.cache_dir \in {"None", "Dir", "Creatable"}
       /\ config.writer_memory_bytes \in {999999, 1000000001}
            => validation.result # "Ok"

\* validate() accepted a configuration whose writer memory is exactly 1 GB
\* and whose cache directory it had to create.
C23_Witness ==
  /\ validation.called
  /\ validation.result = "Ok"
  /\ config.writer_memory_bytes = 1000000000
  /\ validation.created

\* --------------------------------------------------------------------------
\* C24. English case-insensitivity: on any English index state and for any
\* query q, search_tokens_or(q, limit) and search_tokens_or(uppercase(q),
\* limit) return the same set of documents.
C24_CaseInsensitive ==
  en.called
    => /\ en.as_typed.res = en.uppercased.res
       /\ {en.as_typed.results[j] : j \in DOMAIN en.as_typed.results}
            = {en.uppercased.results[j] : j \in DOMAIN en.uppercased.results}

\* --------------------------------------------------------------------------
\* C25. HTTP body limit: a POST /wakeru request whose text is non-empty and
\* at most MAX_TEXT_LENGTH (10,000,000 bytes) reaches the analysis service
\* and is answered 200; only larger payloads are rejected (413 or
\* text_too_long 400), and an empty text is rejected with invalid_input 400.
C25_BodyLimit ==
  (http.stage = "responded" /\ http.content_type = "application/json")
    => /\ (1 <= http.text_len /\ http.text_len <= 10000000)
            => (http.analyzed /\ http.status = 200)
       /\ http.status = 413 => http.text_len > 10000000
       /\ http.code = "text_too_long" => http.text_len > 10000000
       /\ http.text_len = 0 => (http.status = 400 /\ http.code = "invalid_input")

\* The position of the first token of the stream with this text.
C26_First(text) ==
  CHOOSE k \in DOMAIN tokenized.stream :
    /\ tokenized.stream[k] = text
    /\ \A j \in 1..(k - 1) : tokenized.stream[j] # text

\* --------------------------------------------------------------------------
\* C26. Query tokenization: the term list holds each distinct non-empty
\* token text of the stream exactly once, in order of first occurrence; empty
\* token texts are dropped; terms and query_tokens have equal length and
\* correspond index by index.
C26_QueryTokenization ==
  tokenized.called
    => LET q == tokenized.query_tokens
           texts == {tokenized.stream[k] : k \in DOMAIN tokenized.stream} \ {""}
       IN /\ {q[i] : i \in DOMAIN q} = texts
          /\ \A i, j \in DOMAIN q : q[i] = q[j] => i = j
          /\ \A i, j \in DOMAIN q : i < j => C26_First(q[i]) < C26_First(q[j])
          /\ Len(tokenized.terms) = Len(q)
          /\ \A i \in DOMAIN q :
               tokenized.terms[i] = [field |-> tokenized.field, text |-> q[i]]

\* A stream with an empty text and a repeated text between two distinct
\* texts was tokenized.
C26_Witness ==
  /\ tokenized.called
  /\ tokenized.stream = <<"search", "", "search", "rust">>
  /\ tokenized.query_tokens = <<"search", "rust">>

\* The terms of a field that the executed query holds.
C27_Queried(field) ==
  IF planned.query.kind = "TermSet"
  THEN {t \in {planned.query.subqueries[1].terms[j] :
                 j \in DOMAIN planned.query.subqueries[1].terms} : t.field = field}
  ELSE IF planned.query.kind = "Boolean"
  THEN {t \in UNION {{planned.query.subqueries[i].query.terms[j] :
                        j \in DOMAIN planned.query.subqueries[i].query.terms} :
                     i \in DOMAIN planned.query.subqueries} : t.field = field}
  ELSE {}

\* --------------------------------------------------------------------------
\* C27. N-gram fallback planning: every surviving query token becomes a
\* term on text; a token also becomes a term on text_ngram iff the index is
\* Japanese and the token is exactly one Unicode scalar; the executed query
\* is a single term-set over text when there are no N-gram terms and
\* otherwise the Should/Should disjunction of the text term-set and the
\* text_ngram term-set; an English index never queries text_ngram.
C27_NgramFallback ==
  (planned.called /\ planned.query_tokens # <<>>)
    => LET q == planned.query_tokens
           tokens == {q[j] : j \in DOMAIN q}
           ngram == {token \in tokens : planned.language = "Ja" /\ Len(token) = 1}
       IN /\ C27_Queried("text") = {[field |-> "text", text |-> token] : token \in tokens}
          /\ C27_Queried("text_ngram")
               = {[field |-> "text_ngram", text |-> token] : token \in ngram}
          /\ ngram = {} => planned.query.kind = "TermSet"
          /\ ngram # {}
               => /\ planned.query.kind = "Boolean"
                  /\ Len(planned.query.subqueries) = 2
                  /\ \A i \in 1..2 : planned.query.subqueries[i].occur = "Should"
                  /\ \A i \in 1..2 : planned.query.subqueries[i].query.kind = "TermSet"
          /\ planned.language = "En" => C27_Queried("text_ngram") = {}

\* A Japanese engine built the query of a one-character token of three
\* bytes and a two-character token.
C27_Witness ==
  /\ planned.called
  /\ planned.language = "Ja"
  /\ planned.query_tokens = <<<<"k">>, <<"a", "k">>>>
  /\ planned.query.kind = "Boolean"

\* --------------------------------------------------------------------------
\* C28. Writer memory budget: the index writer opened by each add_documents
\* call uses the memory budget given by the validated configuration value
\* writer_memory_bytes the service was initialised with.
C28_WriterBudget ==
  \A i \in DOMAIN writers.budgets : writers.budgets[i] = config.writer_memory_bytes

\* --------------------------------------------------------------------------
\* C29. A failed open_or_create leaves no index behind: when
\* open_or_create(path, Ja, None) on a path without an index fails with
\* MissingJapaneseTokenizer, no index metadata file has been created under
\* path, so the following open_or_create on the same path still takes the
\* create branch, and succeeds for En.
C29_FailedOpenLeavesNoIndex ==
  \A i \in DOMAIN opens :
    (/\ opens[i].language = "Ja" /\ opens[i].tokenizer_ja = "None"
     /\ ~opens[i].existed
     /\ opens[i].res = "MissingJapaneseTokenizer")
      => /\ ~MetaJsonExists(opens[i].after)
         /\ \A j \in DOMAIN opens :
              (/\ j > i
               /\ opens[j].path = opens[i].path
               /\ \A k \in (i + 1)..(j - 1) : opens[k].path # opens[i].path)
                => /\ opens[j].created
                   /\ opens[j].language = "En" => opens[j].res = "Ok"

\* C30: in every token stream of the tokenizer adapter the k-th token that
\* advance() yields has position k - 1 (the first has position 0, one
\* wrapping step from usize::MAX) and position_length 1, whatever tokens the
\* filter dropped before it, and every new stream starts again at 0.
C30_TokenPositions ==
  \A k \in DOMAIN advancing.yielded :
    /\ advancing.yielded[k].position = k - 1
    /\ advancing.yielded[k].position_length = 1

\* A second stream whose middle worker token was filtered out has yielded
\* both of its remaining tokens, at positions 0 and 1.
C30_Witness ==
  /\ advancing.streams = 2
  /\ advancing.kept = <<TRUE, FALSE, TRUE>>
  /\ Len(advancing.yielded) = 2
  /\ advancing.yielded[1].position = 0
  /\ advancing.yielded[2].position = 1
  /\ advancing.exhausted

====
